---------------------------- MODULE Spec2Model ----------------------------
(***************************************************************************)
(* A model of the Telegram channel mirror (ml-brand/timeforcv):            *)
(*   scripts/fetch_telegram.py  the sync run, its album merge, its writes,  *)
(*                              its loader, retry wrapper and classifier    *)
(*   scripts/post_merge.py      the album merger of the refactored modules  *)
(*   scripts/post_diff.py       the change detector                         *)
(*   scripts/storage.py         the record store and its loaders            *)
(*   scripts/media_utils.py     the retry wrapper, classifier, media fetch  *)
(*   scripts/utils.py           clean_channel                               *)
(***************************************************************************)
EXTENDS Integers, Sequences, FiniteSets, TLC

(***************************************************************************)
(* Bounds of the model.                                                    *)
(***************************************************************************)
\* message ids are 1..MaxId
MaxId == 3
\* sync runs started in one behaviour
MaxRuns == 2

\* changes of the remote channel (a message published or edited) in one behaviour
MaxChanges == 1

\* the largest retry budget given to a retry wrapper
MaxRetries == 2

\* the rate-limit signals one wrapped operation gives at most
MaxFloods == 2

\* the calls of the media fetch step made for one message
MaxFetches == 2

VARIABLES
    remote,       \* the channel: message id -> Message
    fs,           \* the data directory: path -> file
    assets,       \* the media directory: the paths that exist
    pc,           \* where the sync process is ("idle": no process runs)
    cfg,          \* SyncConfig and the --dry-run flag of the run
    posts_by_id,  \* run(): the post map in memory
    counts,       \* run(): new_count, updated_count, downloaded
    scan,         \* run(): the media loop (ids_sorted still to visit, checked)
    runs,         \* sync runs started so far; also the clock (last_sync_utc)
    changes,      \* remote changes so far
    hist,         \* history: what earlier runs observed, the disk at run start
    call          \* a call of a function under test: its arguments and result

vars == <<remote, fs, assets, pc, cfg, posts_by_id, counts, scan, runs, changes,
          hist, call>>

(***************************************************************************)
(* Values.  Optional[int] fields hold an integer or None; None is an       *)
(* integer no field value equals.  Python's truth test (`if gid:`) rejects *)
(* None and 0 alike.                                                       *)
(***************************************************************************)
None == -1

Ids == 1..MaxId

Truthy(x) == x # None /\ x # 0

\* a map with no key: {}
EmptyMap == << >>

Min(S) == CHOOSE x \in S : \A y \in S : x <= y

Max(S) == CHOOSE x \in S : \A y \in S : y <= x

\* sorted(ids): ascending
RECURSIVE SortAsc(_)
SortAsc(S) == IF S = {} THEN << >> ELSE <<Min(S)>> \o SortAsc(S \ {Min(S)})

\* sorted(ids, reverse=True): descending
RECURSIVE SortDesc(_)
SortDesc(S) == IF S = {} THEN << >> ELSE <<Max(S)>> \o SortDesc(S \ {Max(S)})

\* the concatenation of a sequence of sequences
RECURSIVE Flatten(_)
Flatten(ss) == IF ss = << >> THEN << >> ELSE Head(ss) \o Flatten(Tail(ss))

Range(s) == {s[i] : i \in DOMAIN s}

\* the greatest of a set of numbers and n
MaxOr(S, n) == Max(S \cup {n})

(***************************************************************************)
(* Album merge.                                                            *)
(***************************************************************************)

\* the group ids of a post map: `if gid:` keeps the truthy ones
GroupIds(posts) == {g \in {posts[i].grouped_id : i \in DOMAIN posts} : Truthy(g)}

\* grouped.setdefault(int(gid), []).append(post)
GroupMembers(posts, gid) == {i \in DOMAIN posts : posts[i].grouped_id = gid}

\* standalone[pid] = post
Standalone(posts) == {i \in DOMAIN posts : ~Truthy(posts[i].grouped_id)}

\* the record whose "id" is n among the members
PostWithId(posts, members, n) == posts[CHOOSE k \in members : posts[k].id = n]

\* the mutant of items_sorted: the group is taken largest id first
items_sorted_desc(posts, gid) ==
    LET members == GroupMembers(posts, gid)
        order   == SortDesc({posts[k].id : k \in members})
    IN  [n \in 1..Len(order) |-> PostWithId(posts, members, order[n])]

\* sorted(items, key=lambda p: int(p.get("id", 0)))
items_sorted(posts, gid) ==
    LET members == GroupMembers(posts, gid)
        order   == SortAsc({posts[k].id : k \in members})
    IN  [n \in 1..Len(order) |-> PostWithId(posts, members, order[n])]

\* the loop that prefers the first non-empty text / html across the group
RECURSIVE ResolveText(_, _, _)
ResolveText(items, text, html) ==
    IF items = << >> THEN <<text, html>>
    ELSE LET it == Head(items)
             t2 == IF text = "" /\ it.text # "" THEN it.text ELSE text
             h2 == IF html = "" /\ it.html # "" THEN it.html ELSE html
         IN  IF t2 # "" /\ h2 # "" THEN <<t2, h2>>
             ELSE ResolveText(Tail(items), t2, h2)

\* the mutant of text_html: the base's own text and html, without the scan
text_html_of_base(items) == <<items[1].text, items[1].html>>

\* text = base.get("text") or ""; html likewise; the loop runs when one is empty
text_html(items) ==
    LET base == items[1]
    IN  IF base.text = "" \/ base.html = ""
        THEN ResolveText(items, base.text, base.html)
        ELSE <<base.text, base.html>>

\* post_merge.py: (path, kind, mime)
media_dedupe_key(media_item) == <<media_item.path, media_item.kind, media_item.mime>>

\* post_merge.py: append unless the key was seen
RECURSIVE DedupeAppend(_, _)
DedupeAppend(acc, items) ==
    IF items = << >> THEN acc
    ELSE IF \E j \in DOMAIN acc : media_dedupe_key(acc[j]) = media_dedupe_key(Head(items))
         THEN DedupeAppend(acc, Tail(items))
         ELSE DedupeAppend(Append(acc, Head(items)), Tail(items))

\* post_merge.py: merged_media of one group
merged_media(items) ==
    DedupeAppend(<< >>, Flatten([n \in DOMAIN items |-> items[n].media]))

\* fetch_telegram.py: combined_media.extend(it["media"]) for every part
combined_media(items) == Flatten([n \in DOMAIN items |-> items[n].media])

\* the merged record of one group, given its media list
MergedPost(items, gid, media) ==
    LET th == text_html(items)
    IN  [items[1] EXCEPT !.media = media, !.text = th[1], !.html = th[2],
                         !.grouped_id = gid]

\* the id under which a group's merged record is stored: int(base["id"])
BaseId(posts, gid) == items_sorted(posts, gid)[1].id

\* the ids of the merged map: the standalone posts and one base per group
MergedIds(posts) ==
    Standalone(posts) \cup {BaseId(posts, gid) : gid \in GroupIds(posts)}

\* scripts/post_merge.py merge_albums
post_merge_albums(posts) ==
    [i \in MergedIds(posts) |->
        IF i \in Standalone(posts) THEN posts[i]
        ELSE LET gid == CHOOSE g \in GroupIds(posts) : BaseId(posts, g) = i
                 items == items_sorted(posts, gid)
             IN  MergedPost(items, gid, merged_media(items))]

\* scripts/fetch_telegram.py merge_albums
merge_albums(posts) ==
    [i \in MergedIds(posts) |->
        IF i \in Standalone(posts) THEN posts[i]
        ELSE LET gid == CHOOSE g \in GroupIds(posts) : BaseId(posts, g) = i
                 items == items_sorted(posts, gid)
             IN  MergedPost(items, gid, combined_media(items))]

(***************************************************************************)
(* The remote channel and the post normalizer (fetch_telegram.py).         *)
(* A Message carries: id, date, edit_date, message (the text), entities,   *)
(* views, forwards, reactions, grouped_id, the media attributes poll,      *)
(* photo, video, audio, document, and its file (mime, size in MiB, name).  *)
(***************************************************************************)

\* the MIME types of the model; "" is a missing mime_type (`or ""`)
Mimes == {"", "image/jpeg", "image/webp", "video/mp4", "audio/ogg",
          "application/x-tgsticker", "application/pdf"}

\* `part in mime` for the MIME types of the model
mime_contains(mime, part) ==
    CASE part = "image/" -> mime \in {"image/jpeg", "image/webp"}
      [] part = "video/" -> mime = "video/mp4"
      [] part = "audio/" -> mime = "audio/ogg"
      [] OTHER -> mime = part

\* the mutant of message_type: photo is tested before poll
message_type_photo_first(m) ==
    IF m.photo THEN "photo"
    ELSE IF m.poll THEN "poll"
    ELSE IF m.video THEN "video"
    ELSE IF m.audio THEN "audio"
    ELSE IF m.document THEN
        (IF mime_contains(m.mime, "image/") THEN "image"
         ELSE IF mime_contains(m.mime, "video/") THEN "video"
         ELSE IF mime_contains(m.mime, "audio/") THEN "audio"
         ELSE IF mime_contains(m.mime, "application/x-tgsticker") THEN "sticker"
         ELSE "document")
    ELSE IF m.message # "" THEN "text"
    ELSE "other"

\* fetch_telegram.py message_type: the first matching class
message_type(m) ==
    IF m.poll THEN "poll"
    ELSE IF m.photo THEN "photo"
    ELSE IF m.video THEN "video"
    ELSE IF m.audio THEN "audio"
    ELSE IF m.document THEN
        (IF mime_contains(m.mime, "image/") THEN "image"
         ELSE IF mime_contains(m.mime, "video/") THEN "video"
         ELSE IF mime_contains(m.mime, "audio/") THEN "audio"
         ELSE IF mime_contains(m.mime, "application/x-tgsticker") THEN "sticker"
         ELSE "document")
    ELSE IF m.message # "" THEN "text"
    ELSE "other"

\* telethon_html.unparse(text, entities) with '\n' -> '<br>'; "" when it raises
unparse(text, entities) ==
    IF entities = "bad" THEN ""
    ELSE IF entities = "bold" /\ text # "" THEN "<strong>" \o text \o "</strong>"
    ELSE text

\* fetch_telegram.py reactions_info: None (no tuple) or ReactionInfo(total)
reactions_info(m) == IF m.reactions = << >> THEN << >> ELSE <<[total |-> m.reactions[1]]>>

\* fetch_telegram.py to_post_dict; `now` stands in for a missing date.
\* The link (a constant of the channel and the id) is left out.
to_post_dict(m, now) ==
    [id         |-> m.id,
     date       |-> IF m.date # None THEN m.date ELSE now,
     edited     |-> m.edit_date,
     text       |-> m.message,
     html       |-> unparse(m.message, m.entities),
     type       |-> message_type(m),
     views      |-> m.views,
     forwards   |-> m.forwards,
     grouped_id |-> IF Truthy(m.grouped_id) THEN m.grouped_id ELSE None,
     media      |-> << >>,
     reactions  |-> reactions_info(m)]

\* m.media: the message carries some media
HasMedia(m) == m.poll \/ m.photo \/ m.video \/ m.audio \/ m.document

\* m.file: the media has a file (a poll has none)
HasFile(m) == m.photo \/ m.video \/ m.audio \/ m.document

\* client.iter_messages(entity, reverse=True, min_id=n): ascending, id > n
iter_ascending(chan, min_id) == SortAsc({i \in DOMAIN chan : i > min_id})

\* client.iter_messages(entity, limit=n): newest first, at most n
iter_newest(chan, limit) ==
    LET all == SortDesc(DOMAIN chan)
    IN  SubSeq(all, 1, IF limit < Len(all) THEN limit ELSE Len(all))

\* reversed(buf)
Reverse(s) == [k \in 1..Len(s) |-> s[Len(s) + 1 - k]]

(***************************************************************************)
(* Files.  A file is absent, partial (a strict prefix of a payload, which  *)
(* no JSON parser accepts) or complete with its payload.  A payload is the *)
(* JSON array written: json.dumps is deterministic and keeps the order of  *)
(* the list, so two payloads are byte-identical iff the lists are equal.   *)
(***************************************************************************)
Absent == [state |-> "absent", data |-> << >>]

Partial == [state |-> "partial", data |-> << >>]

Complete(payload) == [state |-> "complete", data |-> payload]

\* the paths of the data directory: posts.json, meta.json and their .tmp
Paths == {"posts", "meta", "posts.tmp", "meta.tmp"}

\* {int(p.get("id")): p for p in data}: a later entry of an id wins
MapOfList(data) ==
    [i \in {data[k].id : k \in DOMAIN data} |->
        data[Max({k \in DOMAIN data : data[k].id = i})]]

\* fetch_telegram.py load_posts: {} when absent or unparseable
load_posts(file) == IF file.state = "complete" THEN MapOfList(file.data) ELSE EmptyMap

\* the records of a map in the order of a sequence of ids
ListOf(posts, order) == [k \in 1..Len(order) |-> posts[order[k]]]

\* fetch_telegram.py write_posts: the payload, newest first (reverse=True)
posts_payload(posts) == ListOf(posts, SortDesc(DOMAIN posts))

\* storage.py write_posts: the payload, oldest first
storage_posts_payload(posts) == ListOf(posts, SortAsc(DOMAIN posts))

\* meta.setdefault("meta_schema_version", "1.0.0"), and posts_schema_version
with_schema_versions(meta) ==
    [f \in DOMAIN meta \cup {"meta_schema_version", "posts_schema_version"} |->
        IF f \in DOMAIN meta THEN meta[f] ELSE "1.0.0"]

\* write_meta: the payload of the one meta record
meta_payload(meta) == <<with_schema_versions(meta)>>

\* Path.write_text, first half: open(path, "w") truncates the file
OpenForWrite(files, path) == [files EXCEPT ![path] = Partial]

\* Path.write_text, second half: the data is written and the file closed
FinishWrite(files, path, payload) == [files EXCEPT ![path] = Complete(payload)]

(***************************************************************************)
(* run(): the phases of one sync run (fetch_telegram.py).                  *)
(* The reconciliation state of a phase is [posts, new, updated].           *)
(***************************************************************************)

\* posts_by_id[mid] = d
Upsert(posts, mid, d) ==
    [i \in DOMAIN posts \cup {mid} |-> IF i = mid THEN d ELSE posts[i]]

\* the initial import of one message: posts_by_id[int(d["id"])] = d
import_one(st, m, now) ==
    [st EXCEPT !.posts = Upsert(st.posts, m.id, to_post_dict(m, now)),
               !.new = st.new + 1]

\* catch-up of one message: new when absent, upserted either way
catch_up_one(st, m, now) ==
    [st EXCEPT !.posts = Upsert(st.posts, m.id, to_post_dict(m, now)),
               !.new = IF m.id \in DOMAIN st.posts THEN st.new ELSE st.new + 1]

\* the inline change test of the trailing refresh
refresh_differs(old, d) ==
    \/ old.date # d.date
    \/ old.html # d.html
    \/ old.edited # d.edited
    \/ old.views # d.views
    \/ old.reactions # d.reactions

\* the mutant of refresh_one: a stored id counts as updated without the test
refresh_one_counts_all(st, m, now) ==
    LET d == to_post_dict(m, now)
    IN  IF m.id \in DOMAIN st.posts
        THEN LET old == st.posts[m.id]
                 d2  == IF old.media # << >> /\ d.media = << >>
                        THEN [d EXCEPT !.media = old.media] ELSE d
             IN  [st EXCEPT !.posts = Upsert(st.posts, m.id, d2),
                            !.updated = st.updated + 1]
        ELSE [st EXCEPT !.posts = Upsert(st.posts, m.id, d), !.new = st.new + 1]

\* trailing refresh of one message
refresh_one(st, m, now) ==
    LET d == to_post_dict(m, now)
    IN  IF m.id \in DOMAIN st.posts
        THEN LET old == st.posts[m.id]
                 d2  == IF old.media # << >> /\ d.media = << >>
                        THEN [d EXCEPT !.media = old.media] ELSE d
             IN  IF refresh_differs(old, d)
                 THEN [st EXCEPT !.posts = Upsert(st.posts, m.id, d2),
                                 !.updated = st.updated + 1]
                 ELSE st
        ELSE [st EXCEPT !.posts = Upsert(st.posts, m.id, d), !.new = st.new + 1]

\* a phase's loop over the messages with the ids `order`
RECURSIVE import_all(_, _, _, _)
import_all(st, chan, order, now) ==
    IF order = << >> THEN st
    ELSE import_all(import_one(st, chan[Head(order)], now), chan, Tail(order), now)

RECURSIVE catch_up_all(_, _, _, _)
catch_up_all(st, chan, order, now) ==
    IF order = << >> THEN st
    ELSE catch_up_all(catch_up_one(st, chan[Head(order)], now), chan, Tail(order), now)

RECURSIVE refresh_all(_, _, _, _)
refresh_all(st, chan, order, now) ==
    IF order = << >> THEN st
    ELSE refresh_all(refresh_one(st, chan[Head(order)], now), chan, Tail(order), now)

\* the mutant of initial_import: the limit is ignored
initial_import_unbounded(st, chan, limit, now) ==
    import_all(st, chan, iter_ascending(chan, 0), now)

\* the initial import: the `limit` newest replayed oldest first, or everything
initial_import(st, chan, limit, now) ==
    IF limit > 0
    THEN LET buf == iter_newest(chan, limit)
         IN  [import_all(st, chan, Reverse(buf), now) EXCEPT !.new = Len(buf)]
    ELSE import_all(st, chan, iter_ascending(chan, 0), now)

\* max_bytes = max(1, media_max_mb) * 1024 * 1024, in MiB
max_bytes(c) == IF c.media_max_mb > 1 THEN c.media_max_mb ELSE 1

\* the file names and extensions of the model's messages
FileNames == {"", "a", "a.jpg", "a b"}

FileExts == {"", ".jpg", "jpg"}

\* safe_filename: every character outside [a-zA-Z0-9._-] becomes "_"
safe_filename(name) == IF name = "a b" THEN "a_b" ELSE name

\* ext = file.ext or ""; a leading "." is added when it is missing
dotted_ext(ext) == IF ext = "jpg" THEN ".jpg" ELSE ext

\* out_name.endswith(ext), for the names and extensions of the model
ends_with(name, ext) == name = "a.jpg" /\ ext = ".jpg"

\* the deterministic file name: the id, "_" and the safe name when there is a
\* name and an extension, and the extension unless the name ends with it
out_name(m) ==
    LET ext  == dotted_ext(m.file_ext)
        name == safe_filename(m.file_name)
        base == ToString(m.id)
    IN  IF name # "" /\ ext # ""
        THEN (IF ends_with(name, ext) THEN base \o "_" \o name
              ELSE base \o "_" \o name \o ext)
        ELSE IF ext # "" THEN base \o ext
        ELSE base

\* the MediaItem maybe_download_media returns on success
media_item(m) ==
    [kind |-> IF message_type(m) \in {"photo", "video", "audio"}
              THEN message_type(m) ELSE "document",
     path |-> out_name(m),
     size |-> m.size,
     mime |-> m.mime,
     name |-> safe_filename(m.file_name)]

\* size is not None and size > max_bytes
too_large(m, limit) == m.size # None /\ m.size > limit

\* maybe_download_media: [items, files, net], files being the media directory
\* after it and net whether client.download_media was called; net_ok says
\* whether the download (with its retries) succeeds
maybe_download_media(m, limit, files, net_ok) ==
    IF ~HasMedia(m) \/ ~HasFile(m)
    THEN [items |-> << >>, files |-> files, net |-> FALSE]
    ELSE IF too_large(m, limit)
    THEN [items |-> << >>, files |-> files, net |-> FALSE]
    ELSE IF out_name(m) \in files
    THEN [items |-> <<media_item(m)>>, files |-> files, net |-> FALSE]
    ELSE IF net_ok
    THEN [items |-> <<media_item(m)>>, files |-> files \cup {out_name(m)}, net |-> TRUE]
    ELSE [items |-> << >>, files |-> files, net |-> TRUE]

\* the types for which the media loop re-fetches the message
MediaTypes == {"photo", "video", "audio", "document", "image", "sticker"}

\* the meta record run() builds; the clock is the number of the run
build_meta(posts, c, now) ==
    [posts_count   |-> Cardinality(DOMAIN posts),
     stats         |-> [new |-> c.new, updated |-> c.updated,
                        media_downloaded |-> c.downloaded],
     last_sync_utc |-> now]

(***************************************************************************)
(* The channels and configurations the model starts from.                  *)
(***************************************************************************)
TextMsg(i) ==
    [id |-> i, date |-> i, edit_date |-> None, message |-> "t", entities |-> "none",
     views |-> 0, forwards |-> 0, reactions |-> << >>, grouped_id |-> None,
     poll |-> FALSE, photo |-> FALSE, video |-> FALSE, audio |-> FALSE,
     document |-> FALSE, mime |-> "", size |-> None, file_name |-> "",
     file_ext |-> ""]

\* a photo of `size` MiB, in album `gid` (None: in no album)
PhotoMsg(i, gid, size) ==
    [TextMsg(i) EXCEPT !.message = "", !.photo = TRUE, !.mime = "image/jpeg",
                       !.size = size, !.file_ext = ".jpg", !.grouped_id = gid]

\* the kinds of message of the model: a text, a photo, a photo over the
\* media budget, a photo of album 7
Kinds == {"text", "photo", "big photo", "album photo"}

MsgOf(i, kind) ==
    CASE kind = "text" -> TextMsg(i)
      [] kind = "photo" -> PhotoMsg(i, None, 1)
      [] kind = "big photo" -> PhotoMsg(i, None, 2)
      [] kind = "album photo" -> PhotoMsg(i, 7, 1)

\* the channels at the start: messages 1..n
Remotes ==
    UNION {{[i \in 1..n |-> MsgOf(i, kind[i])] : kind \in [1..n -> Kinds]} :
              n \in 1..MaxId}

\* SyncConfig (the media budget is 1 MiB) with the --dry-run flag
Configs ==
    {c \in [download_media : BOOLEAN, media_max_mb : {1}, initial_limit : {0, 1},
            refresh_last_n : {0, MaxId}, media_download_scope : {0, 1, MaxId},
            dry_run : {FALSE}] :
        ~c.download_media => c.media_download_scope = MaxId}

NoCounts == [new |-> 0, updated |-> 0, downloaded |-> 0]

\* the locals of run(): last_id, the media loop's ids_sorted and checked, and
\* the exception in flight
NoLocals == [last_id |-> 0, todo |-> << >>, checked |-> 0, error |-> "none"]

NoCall == [fn |-> "none"]

InitRun ==
    /\ fs = [p \in Paths |-> Absent]
    /\ assets = {}
    /\ pc = "idle"
    /\ posts_by_id = EmptyMap
    /\ counts = NoCounts
    /\ scan = NoLocals
    /\ runs = 0
    /\ changes = 0
    /\ hist = [start |-> [p \in Paths |-> Absent], high |-> 0, high_now |-> 0,
               resume |-> 0, opened |-> {}, oversize |-> {}]

Init ==
    /\ remote \in Remotes
    /\ cfg \in Configs
    /\ InitRun
    /\ call = NoCall

(***************************************************************************)
(* The actions of a sync run.                                              *)
(***************************************************************************)
Recon == [posts |-> posts_by_id, new |-> counts.new, updated |-> counts.updated]

SetRecon(st) ==
    /\ posts_by_id' = st.posts
    /\ counts' = [counts EXCEPT !.new = st.new, !.updated = st.updated]

\* run() starts: load_posts, is_initial, last_id
StartRun(dry) ==
    /\ pc = "idle"
    /\ runs < MaxRuns
    /\ runs' = runs + 1
    /\ cfg' = [cfg EXCEPT !.dry_run = dry]
    /\ posts_by_id' = load_posts(fs["posts"])
    /\ counts' = NoCounts
    /\ scan' = [NoLocals EXCEPT !.last_id = IF DOMAIN posts_by_id' # {}
                                           THEN Max(DOMAIN posts_by_id') ELSE 0]
    /\ pc' = IF fs["posts"].state = "absent" \/ DOMAIN posts_by_id' = {}
             THEN "initial" ELSE "catchup"
    /\ hist' = [hist EXCEPT !.start = fs]
    /\ UNCHANGED <<remote, fs, assets, changes, call>>

\* the initial full import
InitialImport ==
    /\ pc = "initial"
    /\ SetRecon(initial_import(Recon, remote, cfg.initial_limit, runs))
    /\ hist' = [hist EXCEPT !.high_now = MaxOr(DOMAIN posts_by_id', @)]
    /\ pc' = "media"
    /\ UNCHANGED <<remote, fs, assets, cfg, scan, runs, changes, call>>

\* 1) fetch the messages after last_id
CatchUp ==
    /\ pc = "catchup"
    /\ LET order == IF scan.last_id > 0 THEN iter_ascending(remote, scan.last_id)
                    ELSE << >>
       IN  /\ SetRecon(catch_up_all(Recon, remote, order, runs))
           /\ hist' = [hist EXCEPT !.high_now = MaxOr(Range(order), @)]
    /\ pc' = "refresh"
    /\ UNCHANGED <<remote, fs, assets, cfg, scan, runs, changes, call>>

\* the mutant of CatchUpFails: the error is logged and swallowed, as in 2)
CatchUpFailsSwallowed ==
    /\ pc = "catchup"
    /\ scan.last_id > 0
    /\ scan' = [scan EXCEPT !.error = "catchup"]
    /\ pc' = "refresh"
    /\ UNCHANGED <<remote, fs, assets, cfg, posts_by_id, counts, runs, changes,
                   hist, call>>

\* 1) fails: the error is logged and raised out of run()
CatchUpFails ==
    /\ pc = "catchup"
    /\ scan.last_id > 0
    /\ scan' = [scan EXCEPT !.error = "catchup"]
    /\ pc' = "raised"
    /\ UNCHANGED <<remote, fs, assets, cfg, posts_by_id, counts, runs, changes,
                   hist, call>>

\* the mutant of Refresh: an error after k of the messages is raised
RefreshFatal ==
    /\ pc = "refresh"
    /\ LET order == IF cfg.refresh_last_n > 0
                    THEN iter_newest(remote, cfg.refresh_last_n) ELSE << >>
       IN  \E k \in 0..Len(order) :
              /\ SetRecon(refresh_all(Recon, remote, SubSeq(order, 1, k), runs))
              /\ hist' = [hist EXCEPT !.high_now = MaxOr(Range(SubSeq(order, 1, k)), @)]
              /\ pc' = IF k < Len(order) THEN "raised" ELSE "media"
    /\ UNCHANGED <<remote, fs, assets, cfg, scan, runs, changes, call>>

\* 2) refresh the last N messages; an error after k of them is logged and swallowed
Refresh ==
    /\ pc = "refresh"
    /\ LET order == IF cfg.refresh_last_n > 0
                    THEN iter_newest(remote, cfg.refresh_last_n) ELSE << >>
       IN  \E k \in 0..Len(order) :
              /\ SetRecon(refresh_all(Recon, remote, SubSeq(order, 1, k), runs))
              /\ hist' = [hist EXCEPT !.high_now = MaxOr(Range(SubSeq(order, 1, k)), @)]
    /\ pc' = "media"
    /\ UNCHANGED <<remote, fs, assets, cfg, scan, runs, changes, call>>

\* 4) the media loop starts: scope, ids_sorted, checked = 0
MediaStart ==
    /\ pc = "media"
    /\ scan' = [scan EXCEPT !.todo = IF cfg.download_media
                                     THEN SortDesc(DOMAIN posts_by_id) ELSE << >>,
                            !.checked = 0]
    /\ pc' = "media_loop"
    /\ UNCHANGED <<remote, fs, assets, cfg, posts_by_id, counts, runs, changes,
                   hist, call>>

\* the mutant of scope: the loop tests `checked > scope`, one fetch too late
scope_inclusive(c) == IF c.media_download_scope > 0 THEN c.media_download_scope + 1 ELSE 1

\* max(0, sync_cfg.media_download_scope)
scope(c) == IF c.media_download_scope > 0 THEN c.media_download_scope ELSE 0

\* one iteration of the media loop that skips its post
MediaSkip ==
    /\ pc = "media_loop"
    /\ scan.todo # << >>
    /\ scan.checked < scope(cfg)
    /\ LET p == posts_by_id[Head(scan.todo)]
       IN  p.media # << >> \/ p.type \notin MediaTypes
    /\ scan' = [scan EXCEPT !.todo = Tail(@)]
    /\ UNCHANGED <<remote, fs, assets, pc, cfg, posts_by_id, counts, runs, changes,
                   hist, call>>

\* the mutant of MediaFetch: a get_messages that fails is raised out of run()
MediaFetchFatal(fetched, net_ok) ==
    /\ pc = "media_loop"
    /\ scan.todo # << >>
    /\ scan.checked < scope(cfg)
    /\ LET mid == Head(scan.todo)
           p   == posts_by_id[mid]
       IN  /\ p.media = << >>
           /\ p.type \in MediaTypes
           /\ IF fetched /\ mid \in DOMAIN remote
              THEN LET got == maybe_download_media(remote[mid], max_bytes(cfg),
                                                   assets, net_ok)
                   IN  /\ assets' = got.files
                       /\ IF got.items # << >>
                          THEN /\ posts_by_id' = [posts_by_id EXCEPT
                                                    ![mid].media = got.items]
                               /\ counts' = [counts EXCEPT
                                               !.downloaded = @ + Len(got.items)]
                          ELSE UNCHANGED <<posts_by_id, counts>>
              ELSE UNCHANGED <<assets, posts_by_id, counts>>
    /\ scan' = [scan EXCEPT !.todo = Tail(@), !.checked = @ + 1]
    /\ pc' = IF fetched THEN pc ELSE "raised"
    /\ UNCHANGED <<remote, fs, cfg, runs, changes, hist, call>>

\* one iteration of the media loop that re-fetches the message: get_messages
\* fails (fetched = FALSE), or returns the message (None when it is gone) and
\* maybe_download_media runs with a download that succeeds or not (net_ok)
MediaFetch(fetched, net_ok) ==
    /\ pc = "media_loop"
    /\ scan.todo # << >>
    /\ scan.checked < scope(cfg)
    /\ LET mid == Head(scan.todo)
           p   == posts_by_id[mid]
       IN  /\ p.media = << >>
           /\ p.type \in MediaTypes
           /\ IF fetched /\ mid \in DOMAIN remote
              THEN LET got == maybe_download_media(remote[mid], max_bytes(cfg),
                                                   assets, net_ok)
                   IN  /\ assets' = got.files
                       /\ IF got.items # << >>
                          THEN /\ posts_by_id' = [posts_by_id EXCEPT
                                                    ![mid].media = got.items]
                               /\ counts' = [counts EXCEPT
                                               !.downloaded = @ + Len(got.items)]
                          ELSE UNCHANGED <<posts_by_id, counts>>
              ELSE UNCHANGED <<assets, posts_by_id, counts>>
    /\ scan' = [scan EXCEPT !.todo = Tail(@), !.checked = @ + 1]
    /\ hist' = LET mid == Head(scan.todo)
               IN  IF /\ fetched /\ mid \in DOMAIN remote
                      /\ HasMedia(remote[mid]) /\ HasFile(remote[mid])
                      /\ too_large(remote[mid], max_bytes(cfg))
                   THEN [hist EXCEPT !.oversize = @ \cup {mid}] ELSE hist
    /\ UNCHANGED <<remote, fs, pc, cfg, runs, changes, call>>

\* the media loop ends (break, or ids_sorted exhausted);
\* 5) merge the album messages
Merge ==
    /\ pc = "media_loop"
    /\ scan.todo = << >> \/ scan.checked >= scope(cfg)
    /\ posts_by_id' = merge_albums(posts_by_id)
    /\ scan' = [scan EXCEPT !.todo = << >>]
    /\ pc' = "write_posts"
    /\ UNCHANGED <<remote, fs, assets, cfg, counts, runs, changes, hist, call>>

\* the mutant of WritePostsOpen: the posts file is written from inside the
\* media loop, before the merge
WritePostsOpenBeforeMerge ==
    /\ pc \in {"media_loop", "write_posts"}
    /\ fs' = OpenForWrite(fs, "posts")
    /\ hist' = [hist EXCEPT !.opened = @ \cup {"posts"}]
    /\ pc' = "write_posts_data"
    /\ UNCHANGED <<remote, assets, cfg, posts_by_id, counts, scan, runs, changes, call>>

\* write_posts(posts_by_id): write_text opens posts.json for writing
WritePostsOpen ==
    /\ pc = "write_posts"
    /\ fs' = OpenForWrite(fs, "posts")
    /\ hist' = [hist EXCEPT !.opened = @ \cup {"posts"}]
    /\ pc' = "write_posts_data"
    /\ UNCHANGED <<remote, assets, cfg, posts_by_id, counts, scan, runs, changes, call>>

\* write_posts(posts_by_id): the payload is written
WritePostsData ==
    /\ pc = "write_posts_data"
    /\ fs' = FinishWrite(fs, "posts", posts_payload(posts_by_id))
    /\ pc' = "meta"
    /\ UNCHANGED <<remote, assets, cfg, posts_by_id, counts, scan, runs, changes,
                   hist, call>>

\* if dry_run: the writes of meta (and feeds) are skipped
DryRunSkip ==
    /\ pc = "meta"
    /\ cfg.dry_run
    /\ pc' = "done"
    /\ UNCHANGED <<remote, fs, assets, cfg, posts_by_id, counts, scan, runs, changes,
                   hist, call>>

\* write_meta(meta): write_text opens meta.json for writing
WriteMetaOpen ==
    /\ pc = "meta"
    /\ ~cfg.dry_run
    /\ fs' = OpenForWrite(fs, "meta")
    /\ hist' = [hist EXCEPT !.opened = @ \cup {"meta"}]
    /\ pc' = "write_meta_data"
    /\ UNCHANGED <<remote, assets, cfg, posts_by_id, counts, scan, runs, changes, call>>

\* write_meta(meta): the payload is written
WriteMetaData ==
    /\ pc = "write_meta_data"
    /\ fs' = FinishWrite(fs, "meta", meta_payload(build_meta(posts_by_id, counts, runs)))
    /\ pc' = "done"
    /\ UNCHANGED <<remote, assets, cfg, posts_by_id, counts, scan, runs, changes,
                   hist, call>>

\* the history once the process of a run is gone
EndOfRun(h, files) == [h EXCEPT !.start = files, !.high_now = 0, !.opened = {}]

\* run() returns, or raises, and the process exits
Finish ==
    /\ pc \in {"done", "raised"}
    /\ pc' = "idle"
    /\ hist' = [EndOfRun(hist, fs) EXCEPT
                   !.high = IF pc = "done" /\ ~cfg.dry_run
                            THEN MaxOr({hist.high_now}, @) ELSE @,
                   !.resume = IF scan.last_id > @ THEN scan.last_id ELSE @]
    /\ posts_by_id' = EmptyMap
    /\ counts' = NoCounts
    /\ scan' = NoLocals
    /\ UNCHANGED <<remote, fs, assets, cfg, runs, changes, call>>

\* the process is terminated at any point of a run
Crash ==
    /\ pc \notin {"idle", "done", "raised"}
    /\ pc' = "idle"
    /\ hist' = [EndOfRun(hist, fs) EXCEPT
                   !.resume = IF scan.last_id > @ THEN scan.last_id ELSE @]
    /\ posts_by_id' = EmptyMap
    /\ counts' = NoCounts
    /\ scan' = NoLocals
    /\ UNCHANGED <<remote, fs, assets, cfg, runs, changes, call>>

(***************************************************************************)
(* The channel changes between runs.                                       *)
(***************************************************************************)
\* a message is published under the next id
Publish ==
    /\ pc = "idle"
    /\ 0 < runs /\ runs < MaxRuns
    /\ changes < MaxChanges
    /\ LET i == Max(DOMAIN remote) + 1
       IN  /\ i <= MaxId
           /\ \E kind \in Kinds :
                 remote' = [j \in DOMAIN remote \cup {i} |->
                               IF j = i THEN MsgOf(i, kind) ELSE remote[j]]
    /\ changes' = changes + 1
    /\ UNCHANGED <<fs, assets, pc, cfg, posts_by_id, counts, scan, runs, hist, call>>

\* a message is edited (its text)
Edit ==
    /\ pc = "idle"
    /\ 0 < runs /\ runs < MaxRuns
    /\ changes < MaxChanges
    /\ \E i \in DOMAIN remote :
          remote' = [remote EXCEPT ![i].message = "e", ![i].edit_date = changes + 1]
    /\ changes' = changes + 1
    /\ UNCHANGED <<fs, assets, pc, cfg, posts_by_id, counts, scan, runs, hist, call>>

Next ==
    \/ \E dry \in BOOLEAN : StartRun(dry)
    \/ InitialImport
    \/ CatchUp
    \/ CatchUpFails
    \/ Refresh
    \/ MediaStart
    \/ MediaSkip
    \/ \E fetched, net_ok \in BOOLEAN : MediaFetch(fetched, net_ok)
    \/ Merge
    \/ WritePostsOpen
    \/ WritePostsData
    \/ DryRunSkip
    \/ WriteMetaOpen
    \/ WriteMetaData
    \/ Finish
    \/ Crash
    \/ Publish
    \/ Edit

Spec == Init /\ [][Next]_vars

(***************************************************************************)
(* Properties of the sync run.                                             *)
(***************************************************************************)
\* the (path, kind, mime) triple of a media item
Triple(m) == <<m.path, m.kind, m.mime>>

\* no two items of a media list have the same triple
NoDuplicateTriple(media) ==
    \A j, k \in DOMAIN media : Triple(media[j]) = Triple(media[k]) => j = k

\* the ids of the records in a complete posts file
StoredIds(file) == {file.data[n].id : n \in DOMAIN file.data}

\* C3: no post record of the persisted store has two media items with the
\* same (path, kind, mime) triple.
C3_StoreHasNoDuplicateMedia ==
    fs["posts"].state = "complete" =>
        \A n \in DOMAIN fs["posts"].data : NoDuplicateTriple(fs["posts"].data[n].media)

\* C4: in a run that starts from a store left whole by the earlier runs, the
\* resume point of catch-up is at least the resume point of every earlier run,
\* at least every message id observed by an earlier completed run, and at
\* least the highest id in the store.
C4_ResumeNeverRegresses ==
    (pc \notin {"idle"} /\ hist.start["posts"].state # "partial") =>
        /\ scan.last_id >= hist.resume
        /\ scan.last_id >= hist.high
        /\ \A i \in DOMAIN load_posts(hist.start["posts"]) : scan.last_id >= i

\* C5: every post id in the persisted store at the start of a run is in the
\* persisted store at the end of the run.
C5_PostsNeverDeleted ==
    (pc = "done" /\ hist.start["posts"].state = "complete") =>
        /\ fs["posts"].state = "complete"
        /\ StoredIds(hist.start["posts"]) \subseteq StoredIds(fs["posts"])

\* C6: when catch-up fails the run is aborted with the error, and the posts
\* file and the meta file are as they were at the start of the run.
C6_CatchUpFailureCommitsNothing ==
    scan.error = "catchup" =>
        /\ pc = "raised"
        /\ fs = hist.start
        /\ hist.opened = {}

\* C6 witness: an incremental run over a store of posts was aborted by a
\* catch-up failure
C6_Witness ==
    /\ pc = "raised"
    /\ scan.error = "catchup"
    /\ fs["posts"].state = "complete"
    /\ fs["posts"].data # << >>
    /\ runs = 2

\* C7: a dry run persists nothing: at its end neither the posts file nor the
\* meta file was created or modified.
C7_DryRunPersistsNothing ==
    (cfg.dry_run /\ pc = "done") =>
        /\ fs = hist.start
        /\ hist.opened = {}

\* C8: a normal run with an empty change-set (no new post, no updated post, no
\* media downloaded) writes neither the posts file nor the meta file.
C8_EmptyChangeSetWritesNothing ==
    (~cfg.dry_run /\ pc = "done" /\ counts = NoCounts) =>
        /\ hist.opened = {}
        /\ fs = hist.start

\* C9: after a process termination at any point of a run, the posts file and
\* the meta file each hold a complete content, never a partial one.
C9_NoPartialFileAfterTermination ==
    pc = "idle" => /\ fs["posts"].state # "partial"
                   /\ fs["meta"].state # "partial"

\* the record carries the status tag skipped_too_large
TaggedTooLarge(p) ==
    "media_status" \in DOMAIN p /\ p["media_status"] = "skipped_too_large"

\* C13: a post whose media is found to exceed the size budget keeps an empty
\* media list and is tagged skipped_too_large, and a post found so by an
\* earlier run is not re-fetched (nor counted against the scope) again.
C13_OversizeIsNotRetried ==
    [][(pc = "media_loop" /\ scan'.checked = scan.checked + 1) =>
          LET mid == Head(scan.todo)
          IN  /\ mid \notin hist.oversize
              /\ mid \in hist'.oversize =>
                    /\ posts_by_id'[mid].media = << >>
                    /\ TaggedTooLarge(posts_by_id'[mid])]_vars

\* the ids an initial import takes: all, or the `limit` most recent
Imported(chan, limit) ==
    IF limit > 0
    THEN {i \in DOMAIN chan : Cardinality({j \in DOMAIN chan : j > i}) < limit}
    ELSE DOMAIN chan

\* the ids E with the members of each album coalesced into the smallest
Coalesced(chan, E) ==
    {i \in E : \/ ~Truthy(chan[i].grouped_id)
               \/ \A j \in E : chan[j].grouped_id = chan[i].grouped_id => i <= j}

\* the run in progress found no posts when it started
StartedEmpty == load_posts(hist.start["posts"]) = EmptyMap

RefreshOrder ==
    IF cfg.refresh_last_n > 0 THEN iter_newest(remote, cfg.refresh_last_n) ELSE << >>

\* C19: the refresh phase, with or without an error, is followed by the media
\* phase, with the inserts and updates of the messages handled before the
\* error and the counters of them; the run is never aborted out of the refresh.
C19_RefreshErrorIsSwallowed ==
    /\ [][(pc = "refresh" /\ pc' # "idle") =>
             /\ pc' = "media"
             /\ \E k \in 0..Len(RefreshOrder) :
                   LET st == refresh_all(Recon, remote, SubSeq(RefreshOrder, 1, k), runs)
                   IN  /\ posts_by_id' = st.posts
                       /\ counts'.new = st.new
                       /\ counts'.updated = st.updated]_vars
    /\ [](pc = "raised" => scan.error = "catchup")

\* C19 witness: a run over a store of message 3 refreshed the last messages,
\* inserted message 2, lost message 1 to an error, and wrote 2 and 3
C19_Witness ==
    /\ pc = "done"
    /\ cfg.refresh_last_n = MaxId
    /\ DOMAIN remote = {1, 2, 3}
    /\ hist.start["posts"].state = "complete"
    /\ StoredIds(hist.start["posts"]) = {3}
    /\ fs["posts"].state = "complete"
    /\ StoredIds(fs["posts"]) = {2, 3}
    /\ counts.new = 1

\* C20: the posts file written by a sync run lists the records in ascending
\* order of id, oldest first.
C20_PostsFileAscending ==
    fs["posts"].state = "complete" =>
        \A j, k \in DOMAIN fs["posts"].data :
            j < k => fs["posts"].data[j].id < fs["posts"].data[k].id

(***************************************************************************)
(* The album mergers as functions: every post map of the bounded sets      *)
(* below is given to post_merge.py's and to fetch_telegram.py's            *)
(* merge_albums.                                                           *)
(***************************************************************************)
\* a media item of message i, as maybe_download_media builds it
ItemOf(i, mime) == [media_item(PhotoMsg(i, None, 1)) EXCEPT !.mime = mime]

\* the media lists of the post maps: none, one item, two distinct items, the
\* same item twice, and two items that differ in the MIME type only
MediaLists ==
    {<< >>, <<ItemOf(1, "image/jpeg")>>, <<ItemOf(2, "image/jpeg")>>,
     <<ItemOf(1, "image/jpeg"), ItemOf(2, "image/jpeg")>>,
     <<ItemOf(1, "image/jpeg"), ItemOf(1, "image/jpeg")>>,
     <<ItemOf(1, "image/jpeg"), ItemOf(1, "image/webp")>>}

\* the stored record of a photo message i
PostRec(i) == to_post_dict(PhotoMsg(i, None, 1), 0)

\* the grouping keys of the post maps
GroupKeys == {None, 7, 8}

\* the post map over the ids S with the grouping keys g and the media ml
MediaPosts(S, g, ml) ==
    [i \in S |-> [PostRec(i) EXCEPT !.grouped_id = g[i], !.media = ml[i]]]

\* the post map over the ids S with the grouping keys g, and a text (an html)
\* that names its post where t (h) says so
TextPosts(S, g, t, h) ==
    [i \in S |-> [PostRec(i) EXCEPT
                     !.grouped_id = g[i],
                     !.text = IF t[i] THEN "t" \o ToString(i) ELSE "",
                     !.html = IF h[i] THEN "h" \o ToString(i) ELSE ""]]

\* the variables of the sync run, at rest
RunAtRest ==
    /\ remote = [i \in {1} |-> TextMsg(i)]
    /\ cfg = CHOOSE c \in Configs : TRUE
    /\ InitRun

RunVars == <<remote, fs, assets, pc, cfg, posts_by_id, counts, scan, runs, changes, hist>>

MergeInput(posts) == [fn |-> "input", arg |-> posts, out |-> EmptyMap]

InitMerge ==
    /\ RunAtRest
    /\ \E S \in SUBSET Ids : \E g \in [S -> GroupKeys] :
          \/ \E ml \in [S -> MediaLists] : call = MergeInput(MediaPosts(S, g, ml))
          \/ \E t, h \in [S -> BOOLEAN] : call = MergeInput(TextPosts(S, g, t, h))

\* merged = post_merge.merge_albums(posts)
CallPostMerge ==
    /\ call.fn = "input"
    /\ call' = [call EXCEPT !.fn = "post_merge.merge_albums",
                            !.out = post_merge_albums(call.arg)]
    /\ UNCHANGED RunVars

\* merged = fetch_telegram.merge_albums(posts)
CallMergeAlbums ==
    /\ call.fn = "input"
    /\ call' = [call EXCEPT !.fn = "fetch_telegram.merge_albums",
                            !.out = merge_albums(call.arg)]
    /\ UNCHANGED RunVars

NextMerge == CallPostMerge \/ CallMergeAlbums

SpecMerge == InitMerge /\ [][NextMerge]_vars

Merged == call.fn \in {"post_merge.merge_albums", "fetch_telegram.merge_albums"}

\* C1: merge_albums returns a map in which no two records share a grouping
\* key; of every group of the input exactly one record survives, the member
\* with the smallest id, and every other member is absent from the output.
C1_OneRecordPerGroup ==
    Merged =>
        LET posts == call.arg
            out   == call.out
        IN  /\ \A i, j \in DOMAIN out :
                  (i # j /\ Truthy(out[i].grouped_id)) =>
                      out[i].grouped_id # out[j].grouped_id
            /\ \A g \in GroupIds(posts) :
                  LET members == GroupMembers(posts, g)
                  IN  /\ {i \in DOMAIN out : out[i].grouped_id = g} = {Min(members)}
                      /\ out[Min(members)].id = Min(members)
                      /\ \A i \in members \ {Min(members)} : i \notin DOMAIN out

\* C1 witness: a group of at least two members was merged into its smallest
\* id, and the output holds that record and one more
C1_Witness ==
    /\ Merged
    /\ \E g \in GroupIds(call.arg) :
          /\ Cardinality(GroupMembers(call.arg, g)) >= 2
          /\ Min(GroupMembers(call.arg, g)) \in DOMAIN call.out
          /\ Cardinality(DOMAIN call.out) = 2

\* the value of a field in the first member, by ascending id, that has a
\* non-empty one; "" when no member has
FirstNonEmpty(posts, members, field) ==
    LET having == {i \in members : posts[i][field] # ""}
    IN  IF having = {} THEN "" ELSE posts[Min(having)][field]

\* C18: the record of a merged group has the text of the smallest-id member,
\* or when that is empty the first non-empty text in ascending id order (empty
\* if there is none), and its html by the same rule on its own; a record
\* without group is returned unchanged.
C18_TextAndHtmlResolved ==
    Merged =>
        /\ \A g \in GroupIds(call.arg) :
              LET members == GroupMembers(call.arg, g)
                  rec     == call.out[Min(members)]
              IN  /\ rec.text = FirstNonEmpty(call.arg, members, "text")
                  /\ rec.html = FirstNonEmpty(call.arg, members, "html")
        /\ \A i \in DOMAIN call.arg :
              ~Truthy(call.arg[i].grouped_id) =>
                  i \in DOMAIN call.out /\ call.out[i] = call.arg[i]

\* C18 witness: a merged record took its text from member 2 and its html from
\* member 1, beside a record without group
C18_Witness ==
    /\ Merged
    /\ DOMAIN call.arg = {1, 2, 3}
    /\ call.arg[1].grouped_id = 7 /\ call.arg[2].grouped_id = 7
    /\ call.arg[3].grouped_id = None
    /\ call.arg[1].text = "" /\ call.arg[1].html # ""
    /\ call.arg[2].text # "" /\ call.arg[2].html # ""
    /\ call.out[1].text = call.arg[2].text
    /\ call.out[1].html = call.arg[1].html
    /\ call.out[3] = call.arg[3]

\* the items of a media list whose triple no earlier item has
FirstOccurrences(media) ==
    LET keep  == {j \in DOMAIN media :
                     \A k \in 1..(j - 1) : Triple(media[k]) # Triple(media[j])}
        order == SortAsc(keep)
    IN  [n \in 1..Len(order) |-> media[order[n]]]

\* the media of a group's members, in ascending order of member id
UnionInIdOrder(posts, g) ==
    LET order == SortAsc(GroupMembers(posts, g))
    IN  Flatten([n \in 1..Len(order) |-> posts[order[n]].media])

\* C2: for every merged group, the surviving record's media list is the union
\* of the members' media in ascending member-id order, without the later items
\* that repeat the (path, kind, mime) triple of an earlier one: every distinct
\* triple of the group exactly once.
C2_MediaIsDedupedUnion ==
    Merged =>
        \A g \in GroupIds(call.arg) :
            LET media == call.out[Min(GroupMembers(call.arg, g))].media
                all   == UnionInIdOrder(call.arg, g)
            IN  /\ media = FirstOccurrences(all)
                /\ NoDuplicateTriple(media)
                /\ {Triple(media[j]) : j \in DOMAIN media}
                       = {Triple(all[j]) : j \in DOMAIN all}

(***************************************************************************)
(* The record store (storage.py): write_posts and write_meta through       *)
(* _write_if_changed, step by step, with the process terminated at any     *)
(* step.  The file system is assumed to work: an existing file can be read *)
(* (the except branch, which falls back to writing, is not taken).         *)
(***************************************************************************)
\* path.with_suffix(path.suffix + ".tmp")
tmp_path(path) == IF path = "posts" THEN "posts.tmp" ELSE "meta.tmp"

\* the mutant of same_bytes: the comparison never finds the file unchanged
same_bytes_never(file, new_bytes) == FALSE

\* _write_if_changed: path.exists() and path.read_bytes() == new_bytes
same_bytes(file, new_bytes) == file.state # "absent" /\ file = Complete(new_bytes)

\* the post maps and meta records handed to the store
StorePosts == {[i \in S |-> PostRec(i)] : S \in SUBSET Ids}

StoreMetas == {build_meta([i \in 1..n |-> PostRec(i)], NoCounts, 0) : n \in 0..1}

StoreVars == <<remote, assets, pc, cfg, posts_by_id, counts, scan, runs, changes, hist>>

StoreIdle(last) == [fn |-> "none", at |-> "idle", last |-> last]

InitStore ==
    /\ RunAtRest
    /\ call = StoreIdle(<< >>)

\* _write_if_changed(path, data) is entered
Enter(fn, path, data) ==
    /\ call.at \in {"idle", "returned"}
    /\ call' = [fn |-> fn, at |-> "compare", path |-> path, data |-> data,
                before |-> fs, ret |-> FALSE,
                last |-> IF call.at = "returned" THEN <<call.path, call.data>>
                         ELSE call.last]
    /\ UNCHANGED fs

\* storage.py write_posts: oldest first
StoreWritePosts == \E posts \in StorePosts : Enter("write_posts", "posts", storage_posts_payload(posts))

\* storage.py write_meta
StoreWriteMeta == \E meta \in StoreMetas : Enter("write_meta", "meta", meta_payload(meta))

\* the file is read and compared: return False, or go on to write
StoreCompare ==
    /\ call.at = "compare"
    /\ call' = IF same_bytes(fs[call.path], call.data)
               THEN [call EXCEPT !.at = "returned", !.ret = FALSE]
               ELSE [call EXCEPT !.at = "tmp_open"]
    /\ UNCHANGED fs

\* tmp_path.write_bytes(new_bytes): the temporary file is opened
StoreTmpOpen ==
    /\ call.at = "tmp_open"
    /\ fs' = OpenForWrite(fs, tmp_path(call.path))
    /\ call' = [call EXCEPT !.at = "tmp_data"]

\* tmp_path.write_bytes(new_bytes): the bytes are written
StoreTmpData ==
    /\ call.at = "tmp_data"
    /\ fs' = FinishWrite(fs, tmp_path(call.path), call.data)
    /\ call' = [call EXCEPT !.at = "replace"]

\* tmp_path.replace(path): the atomic rename; return True
StoreReplace ==
    /\ call.at = "replace"
    /\ fs' = [fs EXCEPT ![call.path] = fs[tmp_path(call.path)],
                        ![tmp_path(call.path)] = Absent]
    /\ call' = [call EXCEPT !.at = "returned", !.ret = TRUE]

\* the process is terminated inside _write_if_changed
StoreCrash ==
    /\ call.at \in {"compare", "tmp_open", "tmp_data", "replace"}
    /\ call' = StoreIdle(<< >>)
    /\ UNCHANGED fs

NextStore ==
    \/ (StoreWritePosts /\ UNCHANGED StoreVars)
    \/ (StoreWriteMeta /\ UNCHANGED StoreVars)
    \/ (StoreCompare /\ UNCHANGED StoreVars)
    \/ (StoreTmpOpen /\ UNCHANGED StoreVars)
    \/ (StoreTmpData /\ UNCHANGED StoreVars)
    \/ (StoreReplace /\ UNCHANGED StoreVars)
    \/ (StoreCrash /\ UNCHANGED StoreVars)

SpecStore == InitStore /\ [][NextStore]_vars

Wrappers == {"with_retries", "run_with_retries"}

\* the configured base delays (backoff, backoff_seconds)
Backoffs == {1, 20, 40}

\* max_backoff_seconds: float = 30.0
max_backoff_seconds == 30

\* the seconds a FloodWaitError carries (0: none given)
FloodSeconds == {0, 1, 3}

\* wait = max(wait, 1)
wait_seconds(seconds) == IF seconds > 1 THEN seconds ELSE 1

\* the mutant of exhausted: the budget is spent one failure early
exhausted_early(attempt, retries) == attempt >= retries

\* if attempt > retries: raise
exhausted(attempt, retries) == attempt > retries

\* delay *= 2; run_with_retries caps it: min(delay_seconds * 2, max_backoff_seconds)
next_delay(fn, delay) ==
    IF fn = "run_with_retries" /\ delay * 2 > max_backoff_seconds
    THEN max_backoff_seconds ELSE delay * 2

\* the sleeps before a retry: with_retries sleeps delay; run_with_retries
\* sleeps max(delay + uniform(-jitter, jitter), 0), jitter = delay * 0.25
sleep_for(fn, delay) ==
    IF fn = "with_retries" THEN {delay}
    ELSE {delay - (delay \div 4), delay, delay + (delay \div 4)}

InitRetry ==
    /\ RunAtRest
    /\ \E fn \in Wrappers, retries \in 0..MaxRetries, backoff \in Backoffs :
          call = [fn |-> fn, retries |-> retries, backoff |-> backoff,
                  attempt |-> 0, delay |-> backoff, at |-> "invoke",
                  calls |-> 0, floods |-> 0, seconds |-> 0, slept |-> 0]

\* return await operation(): the operation returns
InvokeOk ==
    /\ call.at = "invoke"
    /\ call' = [call EXCEPT !.at = "returned", !.calls = @ + 1]

\* the mutant of InvokeFlood: a rate limit is counted as an attempt
InvokeFloodCounted ==
    /\ call.at = "invoke"
    /\ call.floods < MaxFloods
    /\ \E seconds \in FloodSeconds :
          call' = [call EXCEPT !.at = "flood_sleep", !.calls = @ + 1,
                               !.floods = @ + 1, !.seconds = seconds,
                               !.attempt = @ + 1]

\* except FloodWaitError: the operation signals a rate limit
InvokeFlood ==
    /\ call.at = "invoke"
    /\ call.floods < MaxFloods
    /\ \E seconds \in FloodSeconds :
          call' = [call EXCEPT !.at = "flood_sleep", !.calls = @ + 1,
                               !.floods = @ + 1, !.seconds = seconds]

\* await asyncio.sleep(wait), and the loop invokes the operation again
FloodSleep ==
    /\ call.at = "flood_sleep"
    /\ call' = [call EXCEPT !.at = "invoke", !.slept = wait_seconds(call.seconds)]

\* except (RPCError, TimeoutError, OSError): attempt += 1, raise when exhausted
InvokeTransient ==
    /\ call.at = "invoke"
    /\ call' = [call EXCEPT !.attempt = @ + 1, !.calls = @ + 1,
                            !.at = IF exhausted(call.attempt + 1, call.retries)
                                   THEN "raised" ELSE "backoff_sleep"]

\* await asyncio.sleep(delay), delay doubles, and the loop invokes again
BackoffSleep ==
    /\ call.at = "backoff_sleep"
    /\ \E t \in sleep_for(call.fn, call.delay) :
          call' = [call EXCEPT !.at = "invoke", !.slept = t,
                               !.delay = next_delay(call.fn, call.delay)]

NextRetry ==
    \/ (InvokeOk /\ UNCHANGED RunVars)
    \/ (InvokeFlood /\ UNCHANGED RunVars)
    \/ (FloodSleep /\ UNCHANGED RunVars)
    \/ (InvokeTransient /\ UNCHANGED RunVars)
    \/ (BackoffSleep /\ UNCHANGED RunVars)

SpecRetry == InitRetry /\ [][NextRetry]_vars

\* C11: a rate-limit signal leaves the attempt counter unchanged; the wrapper
\* then sleeps the signalled wait, at least 1 second, and invokes the operation
\* again; so whatever the number of rate limits, a wrapper that saw at most
\* `retries` transient failures has not raised, and returns when the operation
\* does.
C11_RateLimitIsFree ==
    /\ [][/\ (call.at = "invoke" /\ call'.at = "flood_sleep") =>
                 call'.attempt = call.attempt
          /\ call.at = "flood_sleep" =>
                 /\ call'.at = "invoke"
                 /\ call'.attempt = call.attempt
                 /\ call'.slept = call.seconds \/ (call.seconds < 1 /\ call'.slept = 1)
                 /\ call'.slept >= 1]_vars
    /\ [](call.at = "raised" => call.attempt > call.retries)

\* C11 witness: the operation returned after two rate limits and as many
\* transient failures as the budget allows
C11_Witness ==
    /\ call.at = "returned"
    /\ call.floods = 2
    /\ call.retries >= 1
    /\ call.attempt = call.retries

\* 2^n
RECURSIVE Pow2(_)
Pow2(n) == IF n = 0 THEN 1 ELSE 2 * Pow2(n - 1)

\* C28: the base delay of the sleep before the first retry is the configured
\* backoff; it doubles after every transient failure, up to the cap; for every
\* configured backoff and every number of failures it is at most
\* max_backoff_seconds.
C28_BackoffIsCappedExponential ==
    call.at = "backoff_sleep" =>
        /\ call.attempt = 1 => call.delay = call.backoff
        /\ call.delay \in {call.backoff * Pow2(call.attempt - 1), max_backoff_seconds}
        /\ call.delay <= max_backoff_seconds

\* C12: the wrapper goes on to invoke again after each of the first `retries`
\* transient failures and raises on failure retries+1; without rate limits it
\* ends within retries+1 invocations.
C12_BoundedRetries ==
    /\ call.attempt <= call.retries + 1
    /\ call.at = "raised" <=> call.attempt = call.retries + 1
    /\ call.floods = 0 =>
          /\ call.calls <= call.retries + 1
          /\ call.calls = call.retries + 1 => call.at \in {"returned", "raised"}

\* C12 witness: a wrapper with budget 2 raised on its third invocation, all
\* three transient failures
C12_Witness ==
    /\ call.at = "raised"
    /\ call.retries = 2
    /\ call.calls = 3
    /\ call.floods = 0

(***************************************************************************)
(* The media fetch step as a function of the message and the media         *)
(* directory: maybe_download_media (fetch_telegram.py) and                 *)
(* download_message_media (media_utils.py), called several times for one   *)
(* message.  A download that succeeds writes the requested path.           *)
(***************************************************************************)
\* mime=mime_type or None, and the thumbnail of an image (none when
\* generate_thumbnail fails)
media_utils_item(m, thumb_ok) ==
    [kind  |-> IF message_type(m) \in {"photo", "video", "audio"}
               THEN message_type(m) ELSE "document",
     path  |-> out_name(m),
     thumb |-> IF thumb_ok /\ (message_type(m) \in {"photo", "image"}
                               \/ mime_contains(m.mime, "image/")
                               \/ dotted_ext(m.file_ext) = ".jpg")
               THEN "thumbs/" \o out_name(m) ELSE "",
     size  |-> m.size,
     mime  |-> m.mime,
     name  |-> safe_filename(m.file_name)]

\* the mutant of download_message_media: the destination is not looked at
download_message_media_always(m, limit, files, net_ok, thumb_ok) ==
    IF ~HasMedia(m) THEN [items |-> << >>, status |-> "no_media", files |-> files, net |-> FALSE]
    ELSE IF ~HasFile(m)
    THEN [items |-> << >>, status |-> "missing_file", files |-> files, net |-> FALSE]
    ELSE IF too_large(m, limit)
    THEN [items |-> << >>, status |-> "skipped_too_large", files |-> files, net |-> FALSE]
    ELSE IF net_ok
    THEN [items |-> <<media_utils_item(m, thumb_ok)>>, status |-> "downloaded",
          files |-> files \cup {out_name(m)}, net |-> TRUE]
    ELSE [items |-> << >>, status |-> "download_failed", files |-> files, net |-> TRUE]

\* media_utils.py download_message_media: [items, status, files, net]
download_message_media(m, limit, files, net_ok, thumb_ok) ==
    IF ~HasMedia(m) THEN [items |-> << >>, status |-> "no_media", files |-> files, net |-> FALSE]
    ELSE IF ~HasFile(m)
    THEN [items |-> << >>, status |-> "missing_file", files |-> files, net |-> FALSE]
    ELSE IF too_large(m, limit)
    THEN [items |-> << >>, status |-> "skipped_too_large", files |-> files, net |-> FALSE]
    ELSE IF out_name(m) \in files
    THEN [items |-> <<media_utils_item(m, thumb_ok)>>, status |-> "downloaded",
          files |-> files, net |-> FALSE]
    ELSE IF net_ok
    THEN [items |-> <<media_utils_item(m, thumb_ok)>>, status |-> "downloaded",
          files |-> files \cup {out_name(m)}, net |-> TRUE]
    ELSE [items |-> << >>, status |-> "download_failed", files |-> files, net |-> TRUE]

\* the messages given to the fetch step: photos and documents with and without
\* a file name and an extension, a photo over the budget, a poll, a text
FetchMsgs ==
    {[PhotoMsg(1, None, 1) EXCEPT !.file_name = n, !.file_ext = e] :
        n \in FileNames, e \in FileExts}
    \cup {[PhotoMsg(2, None, 1) EXCEPT !.photo = FALSE, !.document = TRUE, !.mime = mm] :
             mm \in {"application/pdf", "image/webp", ""}}
    \cup {PhotoMsg(3, None, 2), TextMsg(3),
          [TextMsg(2) EXCEPT !.poll = TRUE, !.message = ""]}

FetchVars == <<remote, fs, pc, cfg, posts_by_id, counts, scan, runs, changes, hist>>

\* no run in progress; the media directory is left to the caller
FetchAtRest ==
    /\ remote = [i \in {1} |-> TextMsg(i)]
    /\ cfg = CHOOSE c \in Configs : TRUE
    /\ fs = [p \in Paths |-> Absent]
    /\ pc = "idle"
    /\ posts_by_id = EmptyMap
    /\ counts = NoCounts
    /\ scan = NoLocals
    /\ runs = 0
    /\ changes = 0
    /\ hist = [start |-> [p \in Paths |-> Absent], high |-> 0, high_now |-> 0,
               resume |-> 0, opened |-> {}, oversize |-> {}]

InitFetch ==
    /\ FetchAtRest
    /\ \E m \in FetchMsgs :
          /\ assets \in {{}, {out_name(m)}}
          /\ call = [fn |-> "none", m |-> m, n |-> 0, transfers |-> 0, before |-> assets,
                     items |-> << >>, net |-> FALSE, prev |-> << >>]

\* what a call leaves in the state
Fetched(fn, got) ==
    /\ call.n < MaxFetches
    /\ assets' = got.files
    /\ call' = [call EXCEPT !.fn = fn, !.n = @ + 1, !.before = assets,
                            !.items = got.items, !.net = got.net,
                            !.transfers = IF got.files # assets THEN @ + 1 ELSE @,
                            !.prev = IF call.fn = "none" THEN << >>
                                     ELSE <<[items |-> call.items, net |-> call.net]>>]

CallMaybeDownload ==
    \E net_ok \in BOOLEAN :
        Fetched("maybe_download_media", maybe_download_media(call.m, 1, assets, net_ok))

CallDownloadMessage ==
    \E net_ok, thumb_ok \in BOOLEAN :
        Fetched("download_message_media",
                download_message_media(call.m, 1, assets, net_ok, thumb_ok))

NextFetch ==
    \/ (CallMaybeDownload /\ UNCHANGED FetchVars)
    \/ (CallDownloadMessage /\ UNCHANGED FetchVars)

SpecFetch == InitFetch /\ [][NextFetch]_vars

\* C14: when the destination of the message exists, the fetch step calls no
\* download and returns one media item with that path; over the calls made for
\* one message at most one download writes the file, a call that follows a call
\* that returned an item calls no download, and every item returned has the
\* same path.
C14_FetchIsIdempotent ==
    call.fn # "none" =>
        /\ (out_name(call.m) \in call.before /\ HasFile(call.m) /\ ~too_large(call.m, 1)) =>
              /\ ~call.net
              /\ Len(call.items) = 1
              /\ call.items[1].path = out_name(call.m)
              /\ assets = call.before
        /\ call.transfers <= 1
        /\ (call.prev # << >> /\ call.prev[1].items # << >>) =>
              /\ ~call.net
              /\ call.items # << >>
              /\ call.items[1].path = call.prev[1].items[1].path

\* C14 witness: the second call for a message, after a first call that
\* downloaded the file, returned the item without a download
C14_Witness ==
    /\ call.fn # "none"
    /\ call.n = 2
    /\ call.transfers = 1
    /\ call.prev # << >>
    /\ call.prev[1].net
    /\ ~call.net
    /\ call.items # << >>

(***************************************************************************)
(* The reconciliation of an incremental run as a function of the store and *)
(* the channel: catch-up after last_id, then the trailing refresh, stopped *)
(* by an error after any number of messages.  The channel does not change  *)
(* in between.                                                             *)
(***************************************************************************)
\* message i after an edit of its text
EditedMsg(m) == [m EXCEPT !.message = "e", !.edit_date = 1]

CountKinds == {"text", "photo", "album photo"}

\* how the store holds a message: as it is now on the channel, as it was
\* before an edit, or with its media downloaded
Holdings == {"same", "stale", "media"}

\* the channel of the reconciliation: message i is edited iff held stale
ChannelOf(n, kind, held) ==
    [i \in 1..n |-> IF held[i] = "stale" THEN EditedMsg(MsgOf(i, kind[i]))
                    ELSE MsgOf(i, kind[i])]

\* the store of the reconciliation: the records of the ids S
StoreOf(S, kind, held) ==
    [i \in S |-> IF held[i] = "media" /\ HasFile(MsgOf(i, kind[i]))
                 THEN [to_post_dict(MsgOf(i, kind[i]), 0) EXCEPT
                          !.media = <<media_item(MsgOf(i, kind[i]))>>]
                 ELSE to_post_dict(MsgOf(i, kind[i]), 0)]

InitCount ==
    /\ RunAtRest
    /\ \E n \in 1..MaxId :
          \E kind \in [1..n -> CountKinds], held \in [1..n -> Holdings] :
             \E S \in (SUBSET (1..n)) \ {{}}, N \in {0, 1, MaxId} :
                call = [fn |-> "input", store |-> StoreOf(S, kind, held),
                        chan |-> ChannelOf(n, kind, held), refresh_last_n |-> N,
                        st |-> [posts |-> StoreOf(S, kind, held), new |-> 0, updated |-> 0],
                        observed |-> {}]

\* run(): 1) fetch the messages after last_id = max(posts_by_id.keys())
CountCatchUp ==
    /\ call.fn = "input"
    /\ LET last_id == Max(DOMAIN call.store)
           order   == IF last_id > 0 THEN iter_ascending(call.chan, last_id) ELSE << >>
       IN  call' = [call EXCEPT !.fn = "catch-up",
                                !.st = catch_up_all(call.st, call.chan, order, 1),
                                !.observed = Range(order)]

\* run(): 2) refresh the last N messages, an error ending it after k of them
CountRefresh ==
    /\ call.fn = "catch-up"
    /\ LET order == IF call.refresh_last_n > 0
                    THEN iter_newest(call.chan, call.refresh_last_n) ELSE << >>
       IN  \E k \in 0..Len(order) :
              call' = [call EXCEPT !.fn = "refresh",
                          !.st = refresh_all(call.st, call.chan, SubSeq(order, 1, k), 1),
                          !.observed = @ \cup Range(SubSeq(order, 1, k))]

NextCount ==
    \/ (CountCatchUp /\ UNCHANGED RunVars)
    \/ (CountRefresh /\ UNCHANGED RunVars)

SpecCount == InitCount /\ [][NextCount]_vars

\* C15: after catch-up and trailing refresh over an unchanged channel,
\* new_count is the number of distinct ids observed that were absent from the
\* store at the start, updated_count is the number of ids of the store whose
\* record the refresh overwrote, and no id is counted twice.
C15_CountsAreExact ==
    call.fn = "refresh" =>
        LET start       == DOMAIN call.store
            posts       == call.st.posts
            overwritten == {i \in start : posts[i] # call.store[i]}
        IN  /\ call.st.new = Cardinality(call.observed \ start)
            /\ call.st.updated = Cardinality(overwritten)
            /\ overwritten \subseteq call.observed
            /\ call.st.new + call.st.updated <= Cardinality(call.observed)
            /\ DOMAIN posts = start \cup call.observed

\* C15 witness: the store holds 1 and 2, message 3 is new and message 1 was
\* edited: new = 1 and updated = 1
C15_Witness ==
    /\ call.fn = "refresh"
    /\ DOMAIN call.store = {1, 2}
    /\ DOMAIN call.chan = {1, 2, 3}
    /\ call.chan[1].edit_date # None
    /\ call.chan[2].edit_date = None
    /\ call.observed = {1, 2, 3}
    /\ call.st.new = 1
    /\ call.st.updated = 1

(***************************************************************************)
(* The change detector (post_diff.py) as a function of two post records.   *)
(* The records have every field of Post, as to_post_dict builds them.      *)
(***************************************************************************)
\* the mutant of WATCHED_FIELDS: the fields the inline test of run() compares
WATCHED_FIELDS_inline == <<"date", "html", "edited", "views", "reactions">>

WATCHED_FIELDS ==
    <<"date", "html", "text", "edited", "views", "reactions", "forwards", "type">>

\* old.get(field): None when the record has no such field
get(rec, field) == IF field \in DOMAIN rec THEN rec[field] ELSE None

\* post_changed: True at the first watched field that differs
post_changed(old, new) ==
    \E n \in DOMAIN WATCHED_FIELDS :
        get(old, WATCHED_FIELDS[n]) # get(new, WATCHED_FIELDS[n])

\* the records compared: two values for every field
DiffRecords ==
    [id : {1}, date : {1, 2}, edited : {None, 1}, text : {"t", "e"},
     html : {"t", "<strong>t</strong>"}, type : {"text", "photo"}, views : {None, 0},
     forwards : {None, 0}, grouped_id : {None, 7},
     media : {<< >>, <<ItemOf(1, "image/jpeg")>>},
     reactions : {<< >>, <<[total |-> 1]>>}]

\* the first record of a comparison: a record differing from the first of
\* DiffRecords in some of date, views, media and grouped_id
DiffBases ==
    {r \in DiffRecords : /\ r.edited = None /\ r.text = "t" /\ r.html = "t"
                         /\ r.type = "text" /\ r.forwards = None
                         /\ r.reactions = << >>}

InitDiff ==
    /\ RunAtRest
    /\ \E a \in DiffBases, b \in DiffRecords :
          call = [fn |-> "input", a |-> a, b |-> b, ab |-> FALSE, ba |-> FALSE,
                  aa |-> FALSE, bb |-> FALSE]

CallPostChanged ==
    /\ call.fn = "input"
    /\ call' = [call EXCEPT !.fn = "post_changed",
                            !.ab = post_changed(call.a, call.b),
                            !.ba = post_changed(call.b, call.a),
                            !.aa = post_changed(call.a, call.a),
                            !.bb = post_changed(call.b, call.b)]
    /\ UNCHANGED RunVars

NextDiff == CallPostChanged

SpecDiff == InitDiff /\ [][NextDiff]_vars

\* the watched field set of the specification
WatchedSet == {"date", "html", "text", "edited", "views", "reactions", "forwards", "type"}

\* C17: post_changed(a, a) is False; post_changed(a, b) = post_changed(b, a);
\* it is True when a and b differ on a watched field and False when they
\* differ on none, in particular when only media and grouped_id differ.
C17_ChangeDetection ==
    call.fn = "post_changed" =>
        /\ ~call.aa /\ ~call.bb
        /\ call.ab = call.ba
        /\ (\E f \in WatchedSet : call.a[f] # call.b[f]) => call.ab
        /\ (\A f \in WatchedSet : call.a[f] = call.b[f]) => ~call.ab

\* C17 witness: two records that differ in media and grouped_id only were
\* compared and reported unchanged
C17_Witness ==
    /\ call.fn = "post_changed"
    /\ call.a.media # call.b.media
    /\ call.a.grouped_id # call.b.grouped_id
    /\ \A f \in WatchedSet : call.a[f] = call.b[f]
    /\ ~call.ab

(***************************************************************************)
(* The loaders as functions of the bytes on disk: load_posts               *)
(* (fetch_telegram.py and storage.py), load_meta (storage.py), and the     *)
(* first lines of run().  A file is absent, holds bytes json.loads rejects *)
(* ("garbage"), or holds a JSON value: a list of entries, or an object.    *)
(* An entry is an object (with or without "id") or a number; an id is an   *)
(* integer, a string or null.                                              *)
(***************************************************************************)
\* the entries of a JSON list in one file
MaxEntries == 2

IntId(n) == [t |-> "int", n |-> n, s |-> ""]

StrId(s) == [t |-> "str", n |-> 0, s |-> s]

NullId == [t |-> "null", n |-> 0, s |-> ""]

\* a JSON object {"id": id, "text": body}, or without the "id" key
DictEntry(has_id, id, body) == [t |-> "dict", has_id |-> has_id, id |-> id, body |-> body]

\* a JSON number in the place of an entry
NumberEntry == [t |-> "number", has_id |-> FALSE, id |-> NullId, body |-> ""]

JsonEntries ==
    {DictEntry(TRUE, IntId(1), "a"), DictEntry(TRUE, IntId(1), "b"),
     DictEntry(TRUE, IntId(2), "a"), DictEntry(TRUE, StrId("2"), "b"),
     DictEntry(TRUE, StrId("x"), "a"), DictEntry(TRUE, NullId, "a"),
     DictEntry(FALSE, NullId, "a"), NumberEntry}

NoFile == [state |-> "absent", json |-> "", items |-> << >>]

Garbage == [state |-> "present", json |-> "garbage", items |-> << >>]

JsonList(items) == [state |-> "present", json |-> "list", items |-> items]

\* a JSON object; its one member is kept in items
JsonObject(items) == [state |-> "present", json |-> "object", items |-> items]

JsonLists == UNION {[1..n -> JsonEntries] : n \in 0..MaxEntries}

PostsFiles == {NoFile, Garbage, JsonObject(<< >>)} \cup {JsonList(l) : l \in JsonLists}

MetaFiles == {NoFile, Garbage, JsonObject(<< >>), JsonObject(<<"meta">>)}

\* int(x) succeeds: an integer, or a string that spells one
int_ok(id) == id.t = "int" \/ (id.t = "str" /\ id.s = "2")

\* int(x)
int_of(id) == IF id.t = "int" THEN id.n ELSE 2

\* {key(p): p for p in kept}: a later entry of a key wins
DictOf(kept) ==
    [i \in {int_of(kept[k].id) : k \in DOMAIN kept} |->
        kept[Max({k \in DOMAIN kept : int_of(kept[k].id) = i})]]

IsDictWithId(p) == p.t = "dict" /\ p.has_id

\* fetch_telegram.py load_posts: one int() that raises empties the result
fetch_telegram_load_posts(file) ==
    IF file.state = "absent" THEN EmptyMap
    ELSE IF file.json # "list" THEN EmptyMap
    ELSE LET kept == SelectSeq(file.items, IsDictWithId)
         IN  IF \E k \in DOMAIN kept : ~int_ok(kept[k].id) THEN EmptyMap
             ELSE DictOf(kept)

\* storage.py load_posts: an entry is skipped unless it is an object whose id
\* is an int or a str that int() accepts
StorageKeeps(p) == p.t = "dict" /\ p.id.t \in {"int", "str"} /\ p.has_id /\ int_ok(p.id)

storage_load_posts(file) ==
    IF file.state = "absent" THEN EmptyMap
    ELSE IF file.json # "list" THEN EmptyMap
    ELSE DictOf(SelectSeq(file.items, StorageKeeps))

\* storage.py load_meta: {} when absent or unparseable, else the value parsed
load_meta(file) ==
    IF file.state = "absent" THEN JsonObject(<< >>)
    ELSE IF file.json = "garbage" THEN JsonObject(<< >>)
    ELSE file

\* run(): is_initial = (not POSTS_PATH.exists()) or (not posts_by_id)
is_initial(file, posts) == file.state = "absent" \/ DOMAIN posts = {}

InitLoad ==
    /\ RunAtRest
    /\ \E pf \in PostsFiles, mf \in MetaFiles :
          call = [fn |-> "input", posts_file |-> pf, meta_file |-> mf,
                  posts |-> EmptyMap, meta |-> JsonObject(<< >>), initial |-> FALSE]

\* posts_by_id = load_posts(); is_initial = ...   (run(), fetch_telegram.py)
CallRun ==
    /\ call.fn = "input"
    /\ LET posts == fetch_telegram_load_posts(call.posts_file)
       IN  call' = [call EXCEPT !.fn = "run", !.posts = posts,
                                !.initial = is_initial(call.posts_file, posts)]
    /\ UNCHANGED RunVars

\* storage.load_posts()
CallStorageLoadPosts ==
    /\ call.fn = "input"
    /\ call' = [call EXCEPT !.fn = "storage.load_posts",
                            !.posts = storage_load_posts(call.posts_file)]
    /\ UNCHANGED RunVars

\* storage.load_meta()
CallLoadMeta ==
    /\ call.fn = "input"
    /\ call' = [call EXCEPT !.fn = "storage.load_meta",
                            !.meta = load_meta(call.meta_file)]
    /\ UNCHANGED RunVars

NextLoad == CallRun \/ CallStorageLoadPosts \/ CallLoadMeta

SpecLoad == InitLoad /\ [][NextLoad]_vars

\* an entry is well formed: an object whose id is an integer or spells one
WellFormed(p) == p.t = "dict" /\ p.has_id /\ int_ok(p.id)

\* the map from id to record of the well-formed entries of a list
WellFormedMap(items) ==
    LET good == {k \in DOMAIN items : WellFormed(items[k])}
    IN  [i \in {int_of(items[k].id) : k \in good} |->
            items[Max({k \in good : int_of(items[k].id) = i})]]

\* C21: load_posts returns the empty map when the posts file is absent, is
\* not parseable or holds no list, and otherwise the map from id to record of
\* the well-formed entries; load_meta returns the empty record when the meta
\* file is absent or not parseable; a run that loads an empty map takes the
\* initial-sync path.
C21_LoadingNeverFails ==
    /\ call.fn \in {"run", "storage.load_posts"} =>
          LET f == call.posts_file
          IN  IF f.state = "absent" \/ f.json # "list"
              THEN call.posts = EmptyMap
              ELSE call.posts = WellFormedMap(f.items)
    /\ call.fn = "run" => (DOMAIN call.posts = {} => call.initial)
    /\ call.fn = "storage.load_meta" =>
          ((call.meta_file.state = "absent" \/ call.meta_file.json = "garbage")
              => call.meta = JsonObject(<< >>))

(***************************************************************************)
(* clean_channel (fetch_telegram.py, and its copy in utils.py) as a        *)
(* function of a string.  A string is the sequence of its characters.      *)
(***************************************************************************)
\* the characters of a bare channel name
MaxName == 2

\* "https://t.me/"
UrlPrefix == <<"h", "t", "t", "p", "s", ":", "/", "/", "t", ".", "m", "e", "/">>

\* the characters str.strip() removes
Whitespace == {" ", "\t", "\n"}

\* s[n:]
DropFirst(s, n) == SubSeq(s, n + 1, Len(s))

\* s.lstrip()
RECURSIVE lstrip(_)
lstrip(s) == IF s # << >> /\ Head(s) \in Whitespace THEN lstrip(Tail(s)) ELSE s

\* s.rstrip()
RECURSIVE rstrip(_)
rstrip(s) ==
    IF s # << >> /\ s[Len(s)] \in Whitespace THEN rstrip(SubSeq(s, 1, Len(s) - 1)) ELSE s

\* s.strip()
strip(s) == rstrip(lstrip(s))

\* s.startswith(prefix)
startswith(s, prefix) == Len(s) >= Len(prefix) /\ SubSeq(s, 1, Len(prefix)) = prefix

\* s.replace(old, ""): every occurrence of old, left to right
RECURSIVE remove_all(_, _)
remove_all(s, old) ==
    IF s = << >> THEN << >>
    ELSE IF startswith(s, old) THEN remove_all(DropFirst(s, Len(old)), old)
    ELSE <<Head(s)>> \o remove_all(Tail(s), old)

\* the mutant of clean_channel: the surrounding whitespace is kept
clean_channel_unstripped(s) ==
    LET s2 == IF startswith(s, UrlPrefix) THEN remove_all(s, UrlPrefix) ELSE s
    IN  IF startswith(s2, <<"@">>) THEN DropFirst(s2, 1) ELSE s2

\* fetch_telegram.py clean_channel
clean_channel(s) ==
    LET s1 == strip(s)
        s2 == IF startswith(s1, UrlPrefix) THEN remove_all(s1, UrlPrefix) ELSE s1
    IN  IF startswith(s2, <<"@">>) THEN DropFirst(s2, 1) ELSE s2

\* utils.py clean_channel
utils_clean_channel(s) ==
    LET s1 == strip(s)
        s2 == IF startswith(s1, UrlPrefix) THEN remove_all(s1, UrlPrefix) ELSE s1
    IN  IF startswith(s2, <<"@">>) THEN DropFirst(s2, 1) ELSE s2

\* the bare names: no whitespace, no "@", no URL prefix
NameChars == {"f", "o", "_", "/"}

BareNames == UNION {[1..n -> NameChars] : n \in 1..MaxName}

\* the decorated forms of a name
Forms == {"bare", "spaces", "tab before", "newline after", "@", "url", "url slash",
          "url @ space"}

Decorated(n, form) ==
    CASE form = "bare" -> n
      [] form = "spaces" -> <<" ">> \o n \o <<" ">>
      [] form = "tab before" -> <<"\t">> \o n
      [] form = "newline after" -> n \o <<"\n">>
      [] form = "@" -> <<"@">> \o n
      [] form = "url" -> UrlPrefix \o n
      [] form = "url slash" -> UrlPrefix \o n \o <<"/">>
      [] form = "url @ space" -> UrlPrefix \o <<"@">> \o n \o <<" ">>

InitClean ==
    /\ RunAtRest
    /\ \E n \in BareNames, form \in Forms :
          call = [fn |-> "input", name |-> n, form |-> form, arg |-> Decorated(n, form),
                  out |-> << >>]

CallCleanChannel ==
    /\ call.fn = "input"
    /\ call' = [call EXCEPT !.fn = "clean_channel", !.out = clean_channel(call.arg)]
    /\ UNCHANGED RunVars

CallUtilsCleanChannel ==
    /\ call.fn = "input"
    /\ call' = [call EXCEPT !.fn = "utils.clean_channel",
                            !.out = utils_clean_channel(call.arg)]
    /\ UNCHANGED RunVars

NextClean == CallCleanChannel \/ CallUtilsCleanChannel

SpecClean == InitClean /\ [][NextClean]_vars

\* C22: for a name n without whitespace, "@" or URL prefix, clean_channel of n
\* surrounded by whitespace, of "@"+n, of "https://t.me/"+n and of
\* "https://t.me/@"+n followed by a space is n.
C22_CleanChannelNormalizes ==
    (call.fn \in {"clean_channel", "utils.clean_channel"}
        /\ call.form \in {"bare", "spaces", "tab before", "newline after", "@", "url",
                          "url @ space"})
        => call.out = call.name

\* C22 witness: "https://t.me/@fo " was cleaned to "fo"
C22_Witness ==
    /\ call.fn = "clean_channel"
    /\ call.arg = UrlPrefix \o <<"@", "f", "o", " ">>
    /\ call.out = <<"f", "o">>

(***************************************************************************)
(* The trailing refresh of one message whose id is in the store, as a      *)
(* function of the stored record and the message now on the channel.       *)
(***************************************************************************)
\* the message the stored record was normalized from
RefreshKinds == {"text", "unparsed text", "photo"}

RefreshBase(kind) ==
    CASE kind = "text" -> TextMsg(1)
      [] kind = "unparsed text" -> [TextMsg(1) EXCEPT !.entities = "bad"]
      [] kind = "photo" -> PhotoMsg(1, None, 1)

\* what happened to the message since: each changes one attribute
Happenings == {"date", "text", "bold", "edit_date", "views", "forwards", "reactions",
               "video"}

Happened(m, hs) ==
    [m EXCEPT !.date = IF "date" \in hs THEN 2 ELSE @,
              !.message = IF "text" \in hs THEN "e" ELSE @,
              !.entities = IF "bold" \in hs THEN "bold" ELSE @,
              !.edit_date = IF "edit_date" \in hs THEN 1 ELSE @,
              !.views = IF "views" \in hs THEN 1 ELSE @,
              !.forwards = IF "forwards" \in hs THEN 1 ELSE @,
              !.reactions = IF "reactions" \in hs THEN <<1>> ELSE @,
              !.photo = IF "video" \in hs THEN FALSE ELSE @,
              !.video = IF "video" \in hs THEN TRUE ELSE @]

\* the stored record of message m, with its media downloaded or not
StoredRecord(m, with_media) ==
    IF with_media /\ HasFile(m)
    THEN [to_post_dict(m, 0) EXCEPT !.media = <<media_item(m)>>]
    ELSE to_post_dict(m, 0)

InitRefresh ==
    /\ RunAtRest
    /\ \E kind \in RefreshKinds, with_media \in BOOLEAN, hs \in SUBSET Happenings :
          LET old == StoredRecord(RefreshBase(kind), with_media)
          IN  call = [fn |-> "input", old |-> old, m |-> Happened(RefreshBase(kind), hs),
                      st |-> [posts |-> [i \in {1} |-> old], new |-> 0, updated |-> 0]]

\* run(): 2), the body of the loop for one message
CallRefreshOne ==
    /\ call.fn = "input"
    /\ call' = [call EXCEPT !.fn = "refresh", !.st = refresh_one(call.st, call.m, 1)]
    /\ UNCHANGED RunVars

NextRefresh == CallRefreshOne

SpecRefresh == InitRefresh /\ [][NextRefresh]_vars

\* C23: when the freshly normalized record of a stored id differs from the
\* stored one on a field of {date, html, text, edited, views, reactions,
\* forwards, type}, the stored record is overwritten and updated_count is
\* incremented; when it differs on none, the stored record is left as it was
\* and nothing is counted.
C23_RefreshWatchesAllFields ==
    call.fn = "refresh" =>
        LET d == to_post_dict(call.m, 1)
        IN  IF \E f \in WatchedSet : call.old[f] # d[f]
            THEN /\ call.st.updated = 1
                 /\ \A f \in WatchedSet : call.st.posts[1][f] = d[f]
            ELSE /\ call.st.updated = 0
                 /\ call.st.posts[1] = call.old
                 /\ call.st.new = 0

(***************************************************************************)
(* The runs that follow a first run.  The behaviour starts when a first    *)
(* run (the initial import, every download of its media loop successful)   *)
(* has completed over the channel; no message is published any             *)
(* more, a message may be edited; `runs` counts the runs from there.       *)
(***************************************************************************)
\* the media run() attaches to the record of message m after a download
attached_media(m, limit) ==
    IF HasMedia(m) /\ HasFile(m) /\ ~too_large(m, limit) THEN <<media_item(m)>> ELSE << >>

\* the reconciliation state of the first run after its initial import
first_run_recon(chan, c) ==
    initial_import([posts |-> EmptyMap, new |-> 0, updated |-> 0], chan, c.initial_limit, 0)

\* the ids the media loop of the first run re-fetches: the scope(c) largest
\* ids among the posts whose type suggests media
first_run_checked(chan, c) ==
    LET posts == first_run_recon(chan, c).posts
        cand  == SortDesc({i \in DOMAIN posts : posts[i].type \in MediaTypes})
    IN  IF c.download_media
        THEN Range(SubSeq(cand, 1, IF scope(c) < Len(cand) THEN scope(c) ELSE Len(cand)))
        ELSE {}

\* the ids whose media the first run downloads
first_run_fetched(chan, c) ==
    {i \in first_run_checked(chan, c) : attached_media(chan[i], max_bytes(c)) # << >>}

\* the post map the first run has in memory when its media loop ends
first_run_posts(chan, c) ==
    LET posts == first_run_recon(chan, c).posts
    IN  [i \in DOMAIN posts |->
            IF i \in first_run_fetched(chan, c)
            THEN [posts[i] EXCEPT !.media = attached_media(chan[i], max_bytes(c))]
            ELSE posts[i]]

\* the post map the first run writes
first_run_store(chan, c) == merge_albums(first_run_posts(chan, c))

\* the media directory after the first run
first_run_assets(chan, c) == {out_name(chan[i]) : i \in first_run_fetched(chan, c)}

\* the counters of the first run
first_run_counts(chan, c) ==
    [new |-> first_run_recon(chan, c).new, updated |-> 0,
     downloaded |-> Cardinality(first_run_fetched(chan, c))]

\* the data directory after the first run
first_run_files(chan, c) ==
    [p \in Paths |->
        CASE p = "posts" -> Complete(posts_payload(first_run_store(chan, c)))
          [] p = "meta" -> Complete(meta_payload(build_meta(first_run_store(chan, c),
                                                           first_run_counts(chan, c), 0)))
          [] OTHER -> Absent]

\* the channels of the later runs: one message less than MaxId at most
LaterRemotes == {r \in Remotes : DOMAIN r \subseteq 1..(MaxId - 1)}

\* the configurations of the later runs: those of Configs and one with a
\* negative media_download_scope
LaterConfigs ==
    Configs \cup {[download_media |-> TRUE, media_max_mb |-> 1, initial_limit |-> 0,
                   refresh_last_n |-> 0, media_download_scope |-> 0 - 2,
                   dry_run |-> FALSE]}

InitLater ==
    /\ remote \in LaterRemotes
    /\ cfg \in LaterConfigs
    /\ fs = first_run_files(remote, cfg)
    /\ assets = first_run_assets(remote, cfg)
    /\ pc = "idle"
    /\ posts_by_id = EmptyMap
    /\ counts = NoCounts
    /\ scan = NoLocals
    /\ runs = 0
    /\ changes = 0
    /\ hist = [start |-> fs, high |-> Max(DOMAIN first_run_posts(remote, cfg)),
               high_now |-> 0, resume |-> 0, opened |-> {},
               oversize |-> {i \in first_run_checked(remote, cfg) :
                                HasFile(remote[i]) /\ too_large(remote[i], max_bytes(cfg))}]
    /\ call = NoCall

NextLater ==
    \/ \E dry \in BOOLEAN : StartRun(dry)
    \/ InitialImport
    \/ CatchUp
    \/ CatchUpFails
    \/ Refresh
    \/ MediaStart
    \/ MediaSkip
    \/ \E fetched, net_ok \in BOOLEAN : MediaFetch(fetched, net_ok)
    \/ Merge
    \/ WritePostsOpen
    \/ WritePostsData
    \/ DryRunSkip
    \/ WriteMetaOpen
    \/ WriteMetaData
    \/ Finish
    \/ Crash
    \/ Edit

SpecLater == InitLater /\ [][NextLater]_vars

\* C24: a stored record with media that the trailing refresh overwrites with
\* a record reporting no media keeps exactly its media list; so a post stored
\* with a non-empty media list has a non-empty media list in the store at the
\* end of every later run.
C24_UpdateKeepsMedia ==
    (pc = "done" /\ fs["posts"].state = "complete") =>
        \A n \in DOMAIN fs["posts"].data :
            LET p     == fs["posts"].data[n]
                first == first_run_store(remote, cfg)
            IN  (p.id \in DOMAIN first /\ first[p.id].media # << >>) => p.media # << >>

\* the phases of run() in the order of its text; the merge is done when the
\* process is at write_posts
PhaseRank(p) ==
    CASE p = "idle" -> 0
      [] p \in {"initial", "catchup"} -> 1
      [] p = "refresh" -> 2
      [] p \in {"media", "media_loop"} -> 3
      [] p = "write_posts" -> 4
      [] p = "write_posts_data" -> 5
      [] p = "meta" -> 6
      [] p = "write_meta_data" -> 7
      [] p \in {"done", "raised"} -> 8

\* C25: within a run the phases never interleave and occur in the order
\* catch-up, trailing refresh, media backfill, album merge, writes: the
\* process never goes back to an earlier phase; messages are reconciled before
\* the media loop only, catch-up handing over to the refresh; media is fetched
\* in the media loop only; the merge takes the map of the finished media loop
\* and nothing changes the map after it; no file is written before the merge.
C25_PhasesInOrder ==
    [][(pc # "idle" /\ pc' # "idle") =>
          /\ PhaseRank(pc') >= PhaseRank(pc)
          /\ pc = "catchup" => pc' \in {"refresh", "raised"}
          /\ pc = "refresh" => pc' = "media"
          /\ (counts'.new # counts.new \/ counts'.updated # counts.updated)
                => PhaseRank(pc) <= 2
          /\ (scan'.checked # scan.checked \/ assets' # assets
              \/ counts'.downloaded # counts.downloaded) => pc = "media_loop"
          /\ PhaseRank(pc) < 4 /\ PhaseRank(pc') >= 4 /\ pc' # "raised"
                => /\ pc = "media_loop" /\ pc' = "write_posts"
                   /\ scan.todo = << >> \/ scan.checked >= scope(cfg)
                   /\ posts_by_id' = merge_albums(posts_by_id)
          /\ PhaseRank(pc) >= 4 => posts_by_id' = posts_by_id
          /\ fs' # fs => PhaseRank(pc) >= 4]_vars

\* C25 witness: a run that caught up with a new message, refreshed an edited
\* one, fetched media, merged an album and wrote both files has ended
C25_Witness ==
    /\ pc = "done"
    /\ counts.new >= 1
    /\ counts.updated >= 1
    /\ counts.downloaded >= 1
    /\ Cardinality(DOMAIN posts_by_id) < Len(remote)
    /\ hist.opened = {"posts", "meta"}
    /\ ~StartedEmpty

\* max(0, media_download_scope) of the run in progress
MaxRefetches == IF cfg.media_download_scope > 0 THEN cfg.media_download_scope ELSE 0

\* the step re-fetches a message: the media loop counts it
Refetches == pc = "media_loop" /\ pc' = "media_loop" /\ scan'.checked # scan.checked

\* C26: a run re-fetches at most max(0, media_download_scope) messages (none
\* with scope 0); each re-fetched message is a stored post with an empty media
\* list and a type suggesting attachments, and they are taken in descending id
\* order: every post with a greater id was visited before, every post with a
\* smaller id is still to visit; nothing is fetched for a post that has media.
C26_BackfillIsBounded ==
    /\ [](scan.checked <= MaxRefetches)
    /\ [][Refetches =>
             LET mid == Head(scan.todo)
             IN  /\ scan'.checked = scan.checked + 1
                 /\ posts_by_id[mid].media = << >>
                 /\ posts_by_id[mid].type \in MediaTypes
                 /\ \A i \in DOMAIN posts_by_id :
                       /\ i > mid => i \notin Range(scan.todo)
                       /\ i < mid => i \in Range(scan'.todo)]_vars
    /\ [][(pc = "media_loop" /\ pc' = "media_loop" /\ ~Refetches) =>
             /\ assets' = assets
             /\ posts_by_id' = posts_by_id
             /\ counts' = counts]_vars

\* C26 witness: with scope 1 the loop has re-fetched message 2, and message 1,
\* a candidate too, is left for a later run
C26_Witness ==
    /\ pc = "media_loop"
    /\ cfg.media_download_scope = 1
    /\ scan.checked = 1
    /\ scan.todo = <<1>>
    /\ posts_by_id[1].media = << >>
    /\ posts_by_id[1].type \in MediaTypes
    /\ DOMAIN posts_by_id = {1, 2}

\* the step is a failed backfill of one post: the media loop counted a post
\* whose message is on the channel with media within the budget, and nothing
\* was attached
BackfillFails ==
    /\ pc = "media_loop"
    /\ pc' # "idle"
    /\ scan'.checked = scan.checked + 1
    /\ Head(scan.todo) \in DOMAIN remote
    /\ attached_media(remote[Head(scan.todo)], max_bytes(cfg)) # << >>
    /\ counts'.downloaded = counts.downloaded

\* C27: a failure while backfilling one post's media does not abort the run:
\* the process stays in the media loop with the remaining candidates to visit,
\* the post keeps its empty media list and no other record changes; no run is
\* aborted out of the media loop.
C27_BackfillFailureIsSwallowed ==
    /\ [][BackfillFails =>
             /\ pc' = "media_loop"
             /\ scan'.todo = Tail(scan.todo)
             /\ posts_by_id' = posts_by_id
             /\ posts_by_id'[Head(scan.todo)].media = << >>
             /\ fs' = fs]_vars
    /\ [][pc = "media_loop" => pc' \in {"media_loop", "write_posts", "idle"}]_vars

\* C27 witness: the backfill of message 2 failed, message 1 got its media, and
\* the run merged and wrote both files
C27_Witness ==
    /\ pc = "done"
    /\ hist.opened = {"posts", "meta"}
    /\ scan.checked = 2
    /\ counts.downloaded = 1
    /\ DOMAIN posts_by_id = {1, 2}
    /\ attached_media(remote[2], max_bytes(cfg)) # << >>
    /\ posts_by_id[2].media = << >>
    /\ posts_by_id[1].media # << >>
    /\ fs["posts"] = Complete(posts_payload(posts_by_id))

(***************************************************************************)
(* Type classification as a function of the attributes of a message:       *)
(* message_type (fetch_telegram.py) and get_message_type (media_utils.py). *)
(***************************************************************************)
\* media_utils.py get_message_type
get_message_type(message) ==
    IF message.poll THEN "poll"
    ELSE IF message.photo THEN "photo"
    ELSE IF message.video THEN "video"
    ELSE IF message.audio THEN "audio"
    ELSE IF message.document THEN
        (IF mime_contains(message.mime, "image/") THEN "image"
         ELSE IF mime_contains(message.mime, "video/") THEN "video"
         ELSE IF mime_contains(message.mime, "audio/") THEN "audio"
         ELSE IF mime_contains(message.mime, "application/x-tgsticker") THEN "sticker"
         ELSE "document")
    ELSE IF message.message # "" THEN "text"
    ELSE "other"

\* the messages classified: every combination of the media attributes, every
\* MIME type of the model, with and without a text body
TypeMsgs ==
    {[TextMsg(1) EXCEPT !.poll = a[1], !.photo = a[2], !.video = a[3], !.audio = a[4],
                        !.document = a[5], !.mime = mm, !.message = body] :
        a \in [1..5 -> BOOLEAN], mm \in Mimes, body \in {"", "t"}}

InitType ==
    /\ RunAtRest
    /\ \E m \in TypeMsgs : call = [fn |-> "input", m |-> m, out |-> ""]

CallMessageType ==
    /\ call.fn = "input"
    /\ call' = [call EXCEPT !.fn = "message_type", !.out = message_type(call.m)]
    /\ UNCHANGED RunVars

CallGetMessageType ==
    /\ call.fn = "input"
    /\ call' = [call EXCEPT !.fn = "get_message_type", !.out = get_message_type(call.m)]
    /\ UNCHANGED RunVars

NextType == CallMessageType \/ CallGetMessageType

SpecType == InitType /\ [][NextType]_vars

\* the post types of the data model
PostTypes == {"text", "photo", "video", "audio", "document", "sticker", "poll", "other"}

\* the class of a document by its MIME type
DocumentClass ==
    [mm \in Mimes |->
        CASE mm \in {"image/jpeg", "image/webp"} -> "image"
          [] mm = "video/mp4" -> "video"
          [] mm = "audio/ogg" -> "audio"
          [] mm = "application/x-tgsticker" -> "sticker"
          [] OTHER -> "document"]

\* the result follows the precedence poll > photo > video > audio > document
\* by MIME type > text > other
FollowsPrecedence ==
    LET m == call.m
    IN  /\ m.poll => call.out = "poll"
        /\ (~m.poll /\ m.photo) => call.out = "photo"
        /\ (~m.poll /\ ~m.photo /\ m.video) => call.out = "video"
        /\ (~m.poll /\ ~m.photo /\ ~m.video /\ m.audio) => call.out = "audio"
        /\ (~m.poll /\ ~m.photo /\ ~m.video /\ ~m.audio /\ m.document)
              => call.out = DocumentClass[m.mime]
        /\ (~m.poll /\ ~m.photo /\ ~m.video /\ ~m.audio /\ ~m.document)
              => call.out = IF m.message # "" THEN "text" ELSE "other"

\* C29 as stated: the classification follows the precedence, and its result is
\* one of text, photo, video, audio, document, sticker, poll, other.
C29_TypePrecedence ==
    call.fn \in {"message_type", "get_message_type"} =>
        /\ FollowsPrecedence
        /\ call.out \in PostTypes

\* C29 as amended: the classification follows the precedence, and its result
\* is one of the post types of the data model or "image".
C29_TypePrecedenceWithImage ==
    call.fn \in {"message_type", "get_message_type"} =>
        /\ FollowsPrecedence
        /\ call.out \in PostTypes \cup {"image"}

\* C29 witness: a document of MIME type image/webp with a text body, and
\* neither poll nor photo, video or audio, was classified as image
C29_Witness ==
    /\ call.fn = "message_type"
    /\ call.m.document
    /\ ~call.m.poll /\ ~call.m.photo /\ ~call.m.video /\ ~call.m.audio
    /\ call.m.mime = "image/webp"
    /\ call.m.message # ""
    /\ call.out = "image"

(***************************************************************************)
(* Runs without failure after a first run: no error from the channel, every *)
(* download successful, no termination, no dry run, and the channel as the *)
(* first run saw it.                                                       *)
(***************************************************************************)
\* 2) with no error: every message of the refresh is handled
RefreshWhole ==
    /\ Refresh
    /\ LET st == refresh_all(Recon, remote, RefreshOrder, runs)
       IN  /\ posts_by_id' = st.posts
           /\ counts'.new = st.new
           /\ counts'.updated = st.updated

NextTwice ==
    \/ StartRun(FALSE)
    \/ CatchUp
    \/ RefreshWhole
    \/ MediaStart
    \/ MediaSkip
    \/ MediaFetch(TRUE, TRUE)
    \/ Merge
    \/ WritePostsOpen
    \/ WritePostsData
    \/ WriteMetaOpen
    \/ WriteMetaData
    \/ Finish

SpecTwice == InitLater /\ [][NextTwice]_vars

\* the first run imported the whole channel and its media loop reached every
\* post: the runs after it find no work left over
NothingLeftOver ==
    /\ cfg.initial_limit = 0
    /\ cfg.download_media => cfg.media_download_scope >= Len(remote)

\* C30: a complete non-dry run that follows a complete run which left nothing
\* over, against a channel that did not change and with no failure, reports
\* new = 0 and updated = 0 and leaves the posts file byte-identical to what the
\* run before it wrote, also when the channel has albums.
C30_RerunIsIdempotent ==
    (pc = "done" /\ NothingLeftOver) =>
        /\ counts.new = 0
        /\ counts.updated = 0
        /\ fs["posts"] = hist.start["posts"]

=============================================================================
